---- MODULE Spec2Model ----
(***************************************************************************)
(* Verification model of VyberWeb.                                         *)
(*                                                                         *)
(*  Spec       the continuity scheduler of worldCanvas.tsx: two video      *)
(*             elements, boot, the render tick, swapToNextClip,            *)
(*             swapToNewClipSet, jump events and generation responses.     *)
(*             SpecFair adds that the timers of a swap routine fire.       *)
(*  SpecFrame  one animation frame (tick) from any state past boot, with   *)
(*             either video ref possibly holding no element.               *)
(*  SpecProps  the same frame, with the component re-rendered with changed  *)
(*             props before or after it.                                   *)
(*  SpecGen    generateClips of the video adapters (lib/external/videos):  *)
(*             three concurrent clip generations joined by Promise.all.    *)
(*  SpecCreate the create request of a task client: createKlingTask        *)
(*             (lib/external/kling.ts) and seedanceGenerateClip            *)
(*             (lib/external/seedance).                                    *)
(*  SpecPoll   the poll loop of a task client: pollKlingTask and           *)
(*             pollSeedanceTask; SpecPollFair adds that its steps are      *)
(*             taken.                                                      *)
(*  SpecStep   one generateVideo call of the canvas (POST .../step) from   *)
(*             any state past boot, followed by one frame.                 *)
(*  SpecAuth   the authorization headers of the three Kling tasks of one   *)
(*             klingAdapter.generateClips call.                            *)
(*  SpecPick   the pass of a poll loop that reads a finished task          *)
(*             document and takes the video URL out of it.                 *)
(*  SpecRoute  the step endpoint (api/worlds/[worldId]/step/route.ts)      *)
(*             from the clip generation to the response.                   *)
(*  SpecLoad   the storyboard and step requests of the canvas and the      *)
(*             loading flag they report to the client.                     *)
(*  SpecToken  the payload of the tokens createJwtToken signs                *)
(*             (lib/external/kling.ts) as the clock advances.              *)
(***************************************************************************)
EXTENDS Integers, Sequences, FiniteSets, TLC

(***************************************************************************)
(* Bounds of the model.                                                    *)
(***************************************************************************)
\* number of distinct URL lists the clip sets handed to the canvas are drawn from
\* (a jump may deliver the URLs that are already playing)
NumUrlSets == 2
\* largest number KLING_CREATE_ATTEMPTS is set to
MaxEnvAttempts == 4
\* the overall poll timeout of pollSeedanceTask, counted in inter-poll delays of
\* 1500 ms (120 in the code; pollKlingTask, 400 in the code, gets one more)
TimeoutSleeps == 2
\* largest number of poll requests followed for one clip of a generateClips call
MaxGenPolls == 2
\* number of seconds the clock is followed through one klingAdapter.generateClips
MaxSeconds == 2
\* number of storyboard and step requests of the canvas that are followed
MaxTokenSeconds == 4
MaxRequests == 5

(***************************************************************************)
(* Program constants.                                                      *)
(***************************************************************************)
\* worldCanvas.tsx:152, 257, 390: the only accepted clip set length
ClipSetLen == 3
\* kling.ts:265: KLING_CREATE_ATTEMPTS ?? "3"
DefaultTtlSeconds == 1800
MinTtlSeconds == 60
NbfSkewSeconds == 5
DefaultCreateAttempts == 3

VARIABLES
    \* ---- worldCanvas.tsx refs (lines 84-95)
    initialVideoUrls,   \* props.initialVideoUrls
    clipSet,            \* clipSetRef.current
    clipIndex,          \* clipIndexRef.current
    activeSlot,         \* activeSlotRef.current, 0 = A, 1 = B
    swapping,           \* swappingRef.current
    elapsed500,         \* Date.now() - lastSwapTimeRef.current > 500
    slotIdx,            \* <<slotAClipIndexRef, slotBClipIndexRef>> as [0..1 -> Int]
    pending,            \* pendingClipSetRef.current
    \* ---- the two <video> elements
    el,
    \* ---- control state of the async routines
    bootPc,             \* position of boot()
    inflight,           \* the swap routines between their first await and their return
    \* ---- environment
    lastDelivered,      \* history: the 3-clip set handed to the canvas last, by a jump
                        \* event or a generation response, since the last splice
                        \* completed; NoSet when there was none or when a generation
                        \* response of another length came after it
    overwritten         \* history: the 3-clip set that lastDelivered replaced while it
                        \* was pending and its splice had not started

schedVars == <<initialVideoUrls, clipSet, clipIndex, activeSlot, swapping, elapsed500,
               slotIdx, pending, el, bootPc, inflight, lastDelivered, overwritten>>

VARIABLES
    \* ---- generateClips of the selected adapter
    envModel,           \* process.env.VIDEO_GEN_MODEL as configured
    client,             \* the task client each of the three calls was handed to
    genPc,              \* position of generateClips
    call,               \* the three calls of the first Promise.all
    poll,               \* the poll loops of the three tasks (klingAdapter: the mapped
                        \* tasks of the second Promise.all)
    polled,             \* number of poll requests issued for each clip
    order,              \* history: order in which the promises of the current
                        \* Promise.all were settled (call numbers)
    result              \* the array generateClips returned

genVars == <<envModel, client, genPc, call, poll, polled, order, result>>

VARIABLES
    \* ---- one create call of a task client
    backend,            \* "kling" (createKlingTask) or "seedance" (seedanceGenerateClip)
    envAttempts,        \* process.env.KLING_CREATE_ATTEMPTS
    attempt,            \* createKlingTask: the loop variable
    createPc,           \* position of the call
    sent,               \* number of create requests issued
    responses,          \* history: the outcomes of the create requests, in order
    delays,             \* history: the retry delays slept, in ms, in order
    created             \* what the create step produced: "handle", "url" or "null"

createVars == <<backend, envAttempts, attempt, createPc, sent, responses, delays, created>>

VARIABLES
    \* ---- one poll loop of a task client
    pollBackend,        \* "kling" (pollKlingTask) or "seedance" (pollSeedanceTask)
    pollPc,             \* position of the loop
    elapsed,            \* Date.now() - started, in units of 1500 ms
    pollReqs,           \* history: the requests the loop issued
    pollLog,            \* history: how each request ended
    pollResult          \* what the loop returned: "url" or "null"

pollVars == <<pollBackend, pollPc, elapsed, pollReqs, pollLog, pollResult>>

VARIABLES
    \* ---- one animation frame, taken on its own
    refs,               \* the slots whose ref (videoARef, videoBRef) holds an element
    ran                 \* history: the frame under observation has run

frameVars == <<refs, ran>>

VARIABLES
    \* ---- what the canvas tells the history UI
    stateCreated,       \* the clip sets for which vyber:stateCreated was dispatched
    loading,            \* the last value passed to props.onLoading
    stepPc,             \* position of one generateVideo call
    stepRes,            \* the answer that call's fetch got
    stepError           \* the status dispatched with vyber:stepError (0 = none)

uiVars == <<stateCreated, loading, stepPc, stepRes, stepError>>

VARIABLES
    \* ---- the authorization headers of the three Kling tasks of one generateClips
    now,                \* Math.floor(Date.now() / 1000), counted from the call
    authPc,             \* position of each createKlingTask call and its poll loop
    authHeader,         \* the local authHeader of each createKlingTask call
    handle,             \* the KlingTaskHandle each call returned
    nextTaskId,         \* the task id the backend issues next
    pollAuth            \* history: the poll requests sent for each call's task

authVars == <<now, authPc, authHeader, handle, nextTaskId, pollAuth>>

VARIABLES
    \* ---- the last pass of a poll loop, on a response with a finished status
    pickBackend,        \* "kling" (pollKlingTask) or "seedance" (pollSeedanceTask)
    pollJson,           \* the task document of the response
    pickPc,             \* position of the pass
    finalUrl            \* the URL the loop returned, NoUrl when it returned null

pickVars == <<pickBackend, pollJson, pickPc, finalUrl>>

VARIABLES
    \* ---- one POST /api/worlds/:id/step from the clip generation on
    routePc,            \* position of the handler
    storyboard,         \* where the four frames came from
    clips3,             \* what each seedanceGenerateClip call has settled as
    httpStatus,         \* status of the response, 0 while there is none
    bodyHasUrls,        \* the response body carries videoUrls
    worldStates,        \* number of world_states rows the request inserted
    actionsStored       \* setActionsForWorldState has run

routeVars == <<routePc, storyboard, clips3, httpStatus, bodyHasUrls, worldStates, actionsStored>>

VARIABLES
    \* ---- the requests of the canvas and the loading flag of the client
    requests,           \* history: the storyboard and step requests the canvas sent
    reported            \* the last value passed to props.onLoading (setLoading)

loadVars == <<requests, reported>>

VARIABLES
    \* ---- the tokens createJwtToken signs
    envTtl,             \* process.env.KLING_TOKEN_TTL_SECONDS
    clock,              \* Math.floor(Date.now() / 1000), counted from the first call
    token               \* the payload of the token signed last

tokenVars == <<envTtl, clock, token>>

vars == <<schedVars, genVars, createVars, pollVars, frameVars, uiVars, authVars, pickVars, routeVars, loadVars, tokenVars>>

Slots == {0, 1}
Other(s) == 1 - s

\* A clip set is an array of URLs: u names the URLs it holds and len is its length.
\* The code never compares arrays, only their lengths and their URLs.
NoSet == [u |-> -1, len |-> -1]
NoSrc == [u |-> -1, i |-> -1]
\* lengths of the lists an event or the page can carry: the accepted one and a
\* partial list
Lens == {ClipSetLen - 1, ClipSetLen}
UrlSets == 1..NumUrlSets
\* The lists of the other lengths hold URLs of their own, named 0.
PartialUrls == 0
\* The clip sets an event or the page can carry.
ClipSets == {[u |-> u, len |-> ClipSetLen] : u \in UrlSets}
               \cup {[u |-> PartialUrls, len |-> l] : l \in Lens \ {ClipSetLen}}

\* clips[i]
Url(clips, i) == [u |-> clips.u, i |-> i]

\* A <video> element before any source is assigned.
FreshVideo ==
    [src |-> NoSrc, ready |-> FALSE, paused |-> TRUE, pos |-> 0, ended |-> FALSE,
     opacity |-> "unset"]

\* loadVideo, up to its await: a different URL is assigned and load() resets the element.
loadVideo(e, url) ==
    IF e.src = NoSrc \/ e.src # url
    THEN [e EXCEPT !.src = url, !.ready = FALSE, !.paused = TRUE, !.pos = 0,
                   !.ended = FALSE]
    ELSE e

\* el.currentTime = 0
Rewind(e) == [e EXCEPT !.pos = 0, !.ended = FALSE]

\* indexes of the three clips of a clip set
Clips == 0..(ClipSetLen - 1)
\* a clip that is missing: null, or a task without a video URL
NoClip == [startImage |-> -1, endImage |-> -1]

\* no poll loop is running
PollIdle ==
    /\ pollBackend = "seedance"
    /\ pollPc = "idle"
    /\ elapsed = 0
    /\ pollReqs = <<>>
    /\ pollLog = <<>>
    /\ pollResult = "none"

\* no create call is running
CreateIdle ==
    /\ backend = "seedance"
    /\ envAttempts = [set |-> FALSE, nan |-> FALSE, num |-> 0]
    /\ attempt = 1
    /\ createPc = "idle"
    /\ sent = 0
    /\ responses = <<>>
    /\ delays = <<>>
    /\ created = "none"

\* both <video> elements are mounted and no frame is singled out
FrameIdle ==
    /\ refs = Slots
    /\ ran = FALSE

\* no authorization header: createKlingTask has not computed one
NoHeader == [iat |-> -1]
\* no task handle: the call has not returned, or returned without one
NoHandle == [taskId |-> 0, headers |-> NoHeader]

\* no Kling task has been created
AuthIdle ==
    /\ now = 0
    /\ authPc = [i \in Clips |-> "idle"]
    /\ authHeader = [i \in Clips |-> NoHeader]
    /\ handle = [i \in Clips |-> NoHandle]
    /\ nextTaskId = 1
    /\ pollAuth = [i \in Clips |-> <<>>]

\* the fields of a task document a URL can be in: the known ones of either backend
\* (videos stands for data.videos[0], task_result for data.task_result.videos[0].url)
\* and one field the schemas do not name
DocFields == {"video_url", "videoUrl", "url", "videos", "task_result", "other"}
\* null or undefined: the field is not in the document
NoUrl == [from |-> "none", kind |-> "absent"]
NoDoc == [well |-> TRUE, f |-> [x \in DocFields |-> "absent"]]

\* no poll response is being read
PickIdle ==
    /\ pickBackend = "seedance"
    /\ pollJson = NoDoc
    /\ pickPc = "idle"
    /\ finalUrl = NoUrl

\* the canvas has sent no request
LoadIdle ==
    /\ requests = <<>>
    /\ reported = FALSE

\* no token has been signed
NoToken == [iat |-> -1, nbf |-> -1, exp |-> [nan |-> FALSE, num |-> -1]]

TokenIdle ==
    /\ envTtl = [set |-> FALSE, nan |-> FALSE, num |-> 0]
    /\ clock = 0
    /\ token = NoToken

\* no step request is being handled
RouteIdle ==
    /\ routePc = "idle"
    /\ storyboard = "none"
    /\ clips3 = [i \in Clips |-> "none"]
    /\ httpStatus = 0
    /\ bodyHasUrls = FALSE
    /\ worldStates = 0
    /\ actionsStored = FALSE

\* nothing has been dispatched to the history UI
UiIdle ==
    /\ stateCreated = {}
    /\ loading = FALSE
    /\ stepPc = "idle"
    /\ stepRes = [kind |-> "none", status |-> 0, videoUrls |-> NoSet]
    /\ stepError = 0

\* no generation is running
GenIdle ==
    /\ envModel = [set |-> FALSE, name |-> "", upper |-> FALSE, padded |-> FALSE]
    /\ client = [i \in Clips |-> "none"]
    /\ genPc = "idle"
    /\ call = [i \in Clips |-> [st |-> "none", val |-> NoClip]]
    /\ poll = [i \in Clips |-> [st |-> "none", val |-> NoClip]]
    /\ polled = [i \in Clips |-> 0]
    /\ order = <<>>
    /\ result = <<>>

(***************************************************************************)
(* The scheduler: initial state (the refs as created at lines 84-95, the   *)
(* mount effect not yet run).                                              *)
(***************************************************************************)
SchedInit ==
    /\ initialVideoUrls \in {c \in ClipSets : c.u \in {PartialUrls, 1}}
    /\ clipSet = initialVideoUrls
    /\ clipIndex = 0
    /\ activeSlot = 0
    /\ swapping = FALSE
    /\ elapsed500 = TRUE          \* lastSwapTimeRef starts at 0
    /\ slotIdx = [s \in Slots |-> -1]
    /\ pending = NoSet
    /\ el = [s \in Slots |-> FreshVideo]
    /\ bootPc = "start"
    /\ inflight = <<>>
    /\ lastDelivered = NoSet
    /\ overwritten = NoSet

(***************************************************************************)
(* ensureVideoPlaying (lines 59-68), up to its first await: play() is      *)
(* requested only on a paused element; the 200 ms delay follows either way.*)
(***************************************************************************)
ensureVideoPlaying_NotAwaited(e) == [pc |-> "playDelay", play |-> "none"]

ensureVideoPlaying(e) ==
    IF e.paused THEN [pc |-> "playWait", play |-> "none"]
    ELSE [pc |-> "playDelay", play |-> "skipped"]

(***************************************************************************)
(* boot (lines 150-191).                                                   *)
(***************************************************************************)
BootRejects_Never(clips) == FALSE

\* line 152
BootRejects(clips) == clips.len # ClipSetLen

\* lines 150-164: the synchronous part of boot, run by the mount effect
boot ==
    /\ bootPc = "start"
    /\ IF BootRejects(clipSet)
       THEN /\ bootPc' = "rejected"
            /\ UNCHANGED <<activeSlot, clipIndex, elapsed500, el>>
       ELSE /\ activeSlot' = 0
            /\ clipIndex' = 0
            /\ elapsed500' = FALSE
            /\ el' = [el EXCEPT ![0] = loadVideo(@, Url(clipSet, 0))]
            /\ bootPc' = "loadA"
    /\ UNCHANGED <<initialVideoUrls, clipSet, swapping, slotIdx, pending, inflight,
                   lastDelivered, overwritten>>
    /\ UNCHANGED <<genVars, createVars, pollVars, frameVars, uiVars, authVars, pickVars, routeVars, loadVars, tokenVars>>

\* lines 164-170: clip 0 is loaded (or its wait gave up); clip 1 goes into B
BootLoadedA ==
    /\ bootPc = "loadA"
    /\ slotIdx' = [slotIdx EXCEPT ![0] = 0]
    /\ el' = [el EXCEPT ![1] = loadVideo(@, Url(initialVideoUrls, 1))]
    /\ bootPc' = "loadB"
    /\ UNCHANGED <<initialVideoUrls, clipSet, clipIndex, activeSlot, swapping, elapsed500,
                   pending, inflight, lastDelivered, overwritten>>
    /\ UNCHANGED <<genVars, createVars, pollVars, frameVars, uiVars, authVars, pickVars, routeVars, loadVars, tokenVars>>

\* lines 170-181: A visible, B hidden, play A.  What follows the awaits of
\* ensureVideoPlaying only logs, so boot is done once el.play() has settled.
BootLoadedB ==
    /\ bootPc = "loadB"
    /\ slotIdx' = [slotIdx EXCEPT ![1] = 1]
    /\ el' = [el EXCEPT ![0] = [Rewind(@) EXCEPT !.opacity = "1"],
                        ![1] = [@ EXCEPT !.opacity = "0"]]
    /\ bootPc' = IF ensureVideoPlaying(el[0]).pc = "playWait" THEN "playA" ELSE "done"
    /\ UNCHANGED <<initialVideoUrls, clipSet, clipIndex, activeSlot, swapping, elapsed500,
                   pending, inflight, lastDelivered, overwritten>>
    /\ UNCHANGED <<genVars, createVars, pollVars, frameVars, uiVars, authVars, pickVars, routeVars, loadVars, tokenVars>>

\* lines 62-67 and 182-187: el.play() settles (a rejection is caught and logged), the
\* 200 ms delay passes and boot returns
BootPlaySettled ==
    /\ bootPc = "playA"
    /\ \E ok \in BOOLEAN :
          el' = [el EXCEPT ![0] = [@ EXCEPT !.paused = IF ok THEN FALSE ELSE @]]
    /\ bootPc' = "done"
    /\ UNCHANGED <<initialVideoUrls, clipSet, clipIndex, activeSlot, swapping, elapsed500,
                   slotIdx, pending, inflight, lastDelivered, overwritten>>
    /\ UNCHANGED <<genVars, createVars, pollVars, frameVars, uiVars, authVars, pickVars, routeVars, loadVars, tokenVars>>

(***************************************************************************)
(* The swap routines.  A routine in flight is a record: kind ("next" for   *)
(* swapToNextClip, "new" for swapToNewClipSet), pc (the await it is        *)
(* suspended at), and its captured locals clips, nxt (nextClipIndex),      *)
(* standby (standbySlot) and play (how the awaited el.play() settled).     *)
(***************************************************************************)
RemoveAt(q, i) == [j \in 1..(Len(q) - 1) |-> IF j < i THEN q[j] ELSE q[j + 1]]

BeginSwap_FlagNotSet == swapping' = swapping /\ elapsed500' = FALSE

\* lines 295-296 and 400-401
BeginSwap == swapping' = TRUE /\ elapsed500' = FALSE

NextClipIndex_NoWrap(cur, clips) == cur + 1

\* lines 301-302: (index + 1) % clips.length
NextClipIndex(cur, clips) == (cur + 1) % clips.len

\* lines 308 and 406: videoARef.current or videoBRef.current is null
RefsMissing == refs # Slots

\* lines 295-296 then 308-311, 400-401 then 404-409: the routine has set the flag and
\* the time of the swap, finds a buffer missing, clears the flag and returns
AbortSwap ==
    /\ swapping' = FALSE
    /\ elapsed500' = FALSE
    /\ UNCHANGED <<initialVideoUrls, clipSet, clipIndex, activeSlot, slotIdx, pending, el,
                   bootPc, inflight, lastDelivered, overwritten>>

\* lines 290-338: swapToNextClip up to its first await
swapToNextClip ==
    IF swapping
    THEN UNCHANGED schedVars
    ELSE IF RefsMissing
    THEN AbortSwap
    ELSE LET clips == clipSet
             nxt == NextClipIndex(clipIndex, clips)
             standby == Other(activeSlot)
             needLoad == slotIdx[standby] # nxt
             r == [kind |-> "next", pc |-> IF needLoad THEN "loadWait" ELSE "readyWait",
                   clips |-> clips, nxt |-> nxt, standby |-> standby, play |-> "none"]
         IN  /\ BeginSwap
             /\ el' = IF needLoad
                      THEN [el EXCEPT ![standby] = loadVideo(@, Url(clips, nxt))]
                      ELSE el
             /\ inflight' = Append(inflight, r)
             /\ UNCHANGED <<initialVideoUrls, clipSet, clipIndex, activeSlot, slotIdx,
                            pending, bootPc, lastDelivered, overwritten>>

RejectsClipSet_Never(newClips) == FALSE

\* line 390
RejectsClipSet(newClips) == newClips.len # ClipSetLen

\* lines 389-419: swapToNewClipSet up to its first await
swapToNewClipSet(newClips) ==
    IF RejectsClipSet(newClips)
    THEN UNCHANGED schedVars
    ELSE IF swapping
    THEN /\ pending' = newClips
         /\ UNCHANGED <<initialVideoUrls, clipSet, clipIndex, activeSlot, swapping,
                        elapsed500, slotIdx, el, bootPc, inflight, lastDelivered, overwritten>>
    ELSE IF RefsMissing
    THEN AbortSwap
    ELSE LET standby == Other(activeSlot)
             r == [kind |-> "new", pc |-> "loadWait", clips |-> newClips, nxt |-> 0,
                   standby |-> standby, play |-> "none"]
         IN  /\ BeginSwap
             /\ el' = [el EXCEPT ![standby] = loadVideo(@, Url(newClips, 0))]
             /\ inflight' = Append(inflight, r)
             /\ UNCHANGED <<initialVideoUrls, clipSet, clipIndex, activeSlot, slotIdx,
                            pending, bootPc, lastDelivered, overwritten>>

shouldSwap_Always(activeEl) == TRUE

\* lines 219-221; an ended element with currentTime > 0 has duration > 0
shouldSwap(activeEl) ==
    \/ activeEl.pos >= 2 /\ elapsed500
    \/ activeEl.ended

TickRefsMissing_Never == FALSE

\* lines 197-200: videoARef.current or videoBRef.current is null
TickRefsMissing == refs # Slots

SpliceDue_AtThreshold == pending # NoSet /\ ~swapping /\ shouldSwap(el[activeSlot])

\* lines 208-209: if (pending && !swappingRef.current)
SpliceDue == pending # NoSet /\ ~swapping

\* lines 195-229: the body of tick, one animation frame
Frame ==
    IF TickRefsMissing
    THEN UNCHANGED schedVars
    ELSE LET activeEl == el[activeSlot]
         IN  IF SpliceDue
             THEN swapToNewClipSet(pending)
             ELSE IF ~swapping /\ activeEl.ready /\ activeEl.pos > 0 /\ shouldSwap(activeEl)
             THEN swapToNextClip
             ELSE UNCHANGED schedVars

\* tick as scheduled by requestAnimationFrame (lines 228, 231)
tick ==
    /\ bootPc # "start"
    /\ Frame
    /\ UNCHANGED <<genVars, createVars, pollVars, frameVars, uiVars, authVars, pickVars, routeVars, loadVars, tokenVars>>

\* standbyEl.currentTime = 0; await ensureVideoPlaying(standbyEl)  (348-349, 420-423)
StartStandby(i) ==
    LET r == inflight[i]
        p == ensureVideoPlaying(el[r.standby])
    IN  /\ el' = [el EXCEPT ![r.standby] = Rewind(@)]
        /\ inflight' = [inflight EXCEPT ![i] = [@ EXCEPT !.pc = p.pc, !.play = p.play]]

\* the await of loadVideo returns (canplaythrough, error or the 10 s timeout):
\* lines 329-344 of swapToNextClip, 419-423 of swapToNewClipSet
StandbyLoaded(i) ==
    /\ inflight[i].pc = "loadWait"
    /\ IF inflight[i].kind = "next"
       THEN /\ slotIdx' = [slotIdx EXCEPT ![inflight[i].standby] = inflight[i].nxt]
            /\ inflight' = [inflight EXCEPT ![i] = [@ EXCEPT !.pc = "readyWait"]]
            /\ UNCHANGED el
       ELSE /\ StartStandby(i)
            /\ UNCHANGED slotIdx
    /\ UNCHANGED <<initialVideoUrls, clipSet, clipIndex, activeSlot, swapping, elapsed500,
                   pending, bootPc, lastDelivered, overwritten>>
    /\ UNCHANGED <<genVars, createVars, pollVars, frameVars, uiVars, authVars, pickVars, routeVars, loadVars, tokenVars>>

\* lines 342-349 of swapToNextClip: the standby element is ready, or the wait gave up
StandbyReady(i) ==
    /\ inflight[i].pc = "readyWait"
    /\ StartStandby(i)
    /\ UNCHANGED <<initialVideoUrls, clipSet, clipIndex, activeSlot, swapping, elapsed500,
                   slotIdx, pending, bootPc, lastDelivered, overwritten>>
    /\ UNCHANGED <<genVars, createVars, pollVars, frameVars, uiVars, authVars, pickVars, routeVars, loadVars, tokenVars>>

\* line 62: the awaited el.play() settles; a rejection is caught and logged
PlaySettled(i) ==
    /\ inflight[i].pc = "playWait"
    /\ \E ok \in BOOLEAN :
          /\ el' = [el EXCEPT ![inflight[i].standby] =
                        [@ EXCEPT !.paused = IF ok THEN FALSE ELSE @]]
          /\ inflight' = [inflight EXCEPT ![i] =
                        [@ EXCEPT !.pc = "playDelay",
                                  !.play = IF ok THEN "resolved" ELSE "rejected"]]
    /\ UNCHANGED <<initialVideoUrls, clipSet, clipIndex, activeSlot, swapping, elapsed500,
                   slotIdx, pending, bootPc, lastDelivered, overwritten>>
    /\ UNCHANGED <<genVars, createVars, pollVars, frameVars, uiVars, authVars, pickVars, routeVars, loadVars, tokenVars>>

\* after the 200 ms delay: lines 352-371 of swapToNextClip, 425-446 of swapToNewClipSet
\* (visibility, pause of the old element, state update, preload into the old element)
SwapVisibility(i) ==
    /\ LET r == inflight[i]
           standby == r.standby
           old == Other(standby)
           preloadUrl == IF r.kind = "next"
                         THEN Url(r.clips, NextClipIndex(r.nxt, r.clips))
                         ELSE Url(r.clips, 1)
       IN  /\ r.pc = "playDelay"
           /\ el' = [el EXCEPT
                       ![standby] = [@ EXCEPT !.opacity = "1"],
                       ![old] = loadVideo([Rewind(@) EXCEPT !.opacity = "0", !.paused = TRUE],
                                          preloadUrl)]
           /\ activeSlot' = standby
           /\ clipIndex' = r.nxt
           /\ clipSet' = IF r.kind = "new" THEN r.clips ELSE clipSet
           /\ slotIdx' = IF r.kind = "new" THEN [slotIdx EXCEPT ![standby] = 0] ELSE slotIdx
           /\ inflight' = [inflight EXCEPT ![i] = [@ EXCEPT !.pc = "preloadWait"]]
           /\ UNCHANGED <<initialVideoUrls, swapping, elapsed500, pending, bootPc,
                          lastDelivered, overwritten>>
    /\ UNCHANGED <<genVars, createVars, pollVars, frameVars, uiVars, authVars, pickVars, routeVars, loadVars, tokenVars>>

\* the preload's await returns: lines 371-386 of swapToNextClip, 446-454 of
\* swapToNewClipSet
SwapDone(i) ==
    /\ LET r == inflight[i]
           newStandby == Other(r.standby)
       IN  /\ r.pc = "preloadWait"
           /\ slotIdx' = [slotIdx EXCEPT ![newStandby] =
                             IF r.kind = "next" THEN NextClipIndex(r.nxt, r.clips) ELSE 1]
           /\ pending' = IF r.kind = "new" THEN NoSet ELSE pending
           /\ swapping' = FALSE
           /\ inflight' = RemoveAt(inflight, i)
           /\ lastDelivered' = IF r.kind = "new" THEN NoSet ELSE lastDelivered
           /\ overwritten' = IF r.kind = "new" THEN NoSet ELSE overwritten
           /\ UNCHANGED <<initialVideoUrls, clipSet, clipIndex, activeSlot, elapsed500, el,
                          bootPc>>
    /\ UNCHANGED <<genVars, createVars, pollVars, frameVars, uiVars, authVars, pickVars, routeVars, loadVars, tokenVars>>

(***************************************************************************)
(* Clip sets delivered to the canvas.                                      *)
(***************************************************************************)
onJumpState_KeepsOlder(cur, videoUrls) ==
    IF videoUrls.len # ClipSetLen \/ cur # NoSet THEN cur ELSE videoUrls

\* lines 255-259: the value of pendingClipSetRef after the vyber:jumpState handler
onJumpState(cur, videoUrls) ==
    IF videoUrls.len # ClipSetLen THEN cur ELSE videoUrls

\* Is a splice of clip set p in flight?
Started(p) == \E i \in DOMAIN inflight : inflight[i].kind = "new" /\ inflight[i].clips = p

\* history: the last valid clip set handed to the canvas.  A jump event of another
\* length is no submission; a generation response of another length ends the wait of
\* the sets before it.
Delivered(v, isJump) ==
    IF v.len = ClipSetLen THEN v ELSE IF isJump THEN lastDelivered ELSE NoSet

\* history: the valid set that v replaces while it waits for its splice to start
Overwritten(v, isJump) ==
    IF v.len # ClipSetLen THEN (IF isJump THEN overwritten ELSE NoSet)
    ELSE IF pending.len = ClipSetLen /\ pending # v /\ ~Started(pending) THEN pending
    ELSE IF overwritten = v THEN NoSet
    ELSE overwritten

\* worldClient.tsx jumpToState dispatches vyber:jumpState; lines 255-259 handle it
JumpState ==
    /\ bootPc # "start"
    /\ \E v \in ClipSets :
          /\ pending' = onJumpState(pending, v)
          /\ lastDelivered' = Delivered(v, TRUE)
          /\ overwritten' = Overwritten(v, TRUE)
    /\ UNCHANGED <<initialVideoUrls, clipSet, clipIndex, activeSlot, swapping, elapsed500,
                   slotIdx, el, bootPc, inflight>>
    /\ UNCHANGED <<genVars, createVars, pollVars, frameVars, uiVars, authVars, pickVars, routeVars, loadVars, tokenVars>>

\* api/worlds/[worldId]/step/route.ts 290-294: the body of the step response is
\* { videoUrls, actions, sceneSummary }; it carries no worldStateId
StepCarriesStateId == FALSE

\* lines 520-526: vyber:stateCreated is dispatched when the response names a world state
DispatchStateCreated(v) == IF StepCarriesStateId THEN stateCreated \cup {v} ELSE stateCreated

\* lines 512-531: generateVideo after a 2xx response whose body carries videoUrls = v
StepOk(v) ==
    /\ pending' = v
    /\ lastDelivered' = Delivered(v, FALSE)
    /\ overwritten' = Overwritten(v, FALSE)
    /\ stateCreated' = DispatchStateCreated(v)
    /\ loading' = FALSE
    /\ UNCHANGED <<initialVideoUrls, clipSet, clipIndex, activeSlot, swapping, elapsed500,
                   slotIdx, el, bootPc, inflight>>

\* a generation requested earlier is answered with a 2xx response
VideoGenerated ==
    /\ bootPc # "start"
    /\ \E v \in ClipSets : StepOk(v)
    /\ UNCHANGED <<stepPc, stepRes, stepError>>
    /\ UNCHANGED <<genVars, createVars, pollVars, frameVars, authVars, pickVars, routeVars, loadVars, tokenVars>>

(***************************************************************************)
(* The playback surface (the browser's media elements) and the clock.      *)
(***************************************************************************)
\* readyState reaches HAVE_ENOUGH_DATA
CanPlayThrough(s) ==
    /\ el[s].src # NoSrc
    /\ ~el[s].ready
    /\ el' = [el EXCEPT ![s] = [@ EXCEPT !.ready = TRUE]]
    /\ UNCHANGED <<initialVideoUrls, clipSet, clipIndex, activeSlot, swapping, elapsed500,
                   slotIdx, pending, bootPc, inflight, lastDelivered, overwritten>>
    /\ UNCHANGED <<genVars, createVars, pollVars, frameVars, uiVars, authVars, pickVars, routeVars, loadVars, tokenVars>>

\* a playing element advances: pos 0 is currentTime = 0, pos 1 is below
\* SWAP_AT_SECONDS, pos 2 is at or above it
Advance(s) ==
    /\ ~el[s].paused /\ el[s].ready /\ ~el[s].ended
    /\ el[s].pos < 2
    /\ el' = [el EXCEPT ![s] = [@ EXCEPT !.pos = @ + 1]]
    /\ UNCHANGED <<initialVideoUrls, clipSet, clipIndex, activeSlot, swapping, elapsed500,
                   slotIdx, pending, bootPc, inflight, lastDelivered, overwritten>>
    /\ UNCHANGED <<genVars, createVars, pollVars, frameVars, uiVars, authVars, pickVars, routeVars, loadVars, tokenVars>>

\* a playing element reaches its end (loop = false); what readyState reports at the
\* end of the media differs between browsers
Ended(s) ==
    /\ ~el[s].paused /\ el[s].ready /\ ~el[s].ended
    /\ el[s].pos >= 1
    /\ \E r \in BOOLEAN : el' = [el EXCEPT ![s] = [@ EXCEPT !.ended = TRUE, !.ready = r]]
    /\ UNCHANGED <<initialVideoUrls, clipSet, clipIndex, activeSlot, swapping, elapsed500,
                   slotIdx, pending, bootPc, inflight, lastDelivered, overwritten>>
    /\ UNCHANGED <<genVars, createVars, pollVars, frameVars, uiVars, authVars, pickVars, routeVars, loadVars, tokenVars>>

\* more than 500 ms have passed since lastSwapTimeRef was set; the clock is read by
\* tick only, and only while no swap is in progress (lines 209-218), so the passing
\* of the 500 ms is recorded once it can be observed
TimePasses ==
    /\ ~elapsed500
    /\ ~swapping
    /\ elapsed500' = TRUE
    /\ UNCHANGED <<initialVideoUrls, clipSet, clipIndex, activeSlot, swapping, slotIdx,
                   pending, el, bootPc, inflight, lastDelivered, overwritten>>
    /\ UNCHANGED <<genVars, createVars, pollVars, frameVars, uiVars, authVars, pickVars, routeVars, loadVars, tokenVars>>

SchedNext ==
    \/ boot
    \/ BootLoadedA
    \/ BootLoadedB
    \/ BootPlaySettled
    \/ tick
    \/ \E i \in DOMAIN inflight : StandbyLoaded(i)
    \/ \E i \in DOMAIN inflight : StandbyReady(i)
    \/ \E i \in DOMAIN inflight : PlaySettled(i)
    \/ \E i \in DOMAIN inflight : SwapVisibility(i)
    \/ \E i \in DOMAIN inflight : SwapDone(i)
    \/ JumpState
    \/ VideoGenerated
    \/ \E s \in Slots : CanPlayThrough(s)
    \/ \E s \in Slots : Advance(s)
    \/ \E s \in Slots : Ended(s)
    \/ TimePasses

Init == SchedInit /\ GenIdle /\ CreateIdle /\ PollIdle /\ FrameIdle /\ UiIdle /\ AuthIdle /\ PickIdle /\ RouteIdle /\ LoadIdle /\ TokenIdle

Next == SchedNext

Spec == Init /\ [][Next]_vars

\* The continuations of a swap routine that the code itself bounds: the waits of
\* loadVideo and of line 341 end with the 10 s timer of waitForEvent (lines 20-35) and
\* the delay of ensureVideoPlaying is a 200 ms timer (line 67).  The awaited el.play()
\* of line 62 has no timer: its promise settles when playback starts or is refused,
\* and stays pending while the element has no data to play and reports no failure.
TimedSteps ==
    \E i \in DOMAIN inflight :
        StandbyLoaded(i) \/ StandbyReady(i) \/ SwapVisibility(i) \/ SwapDone(i)

\* requestAnimationFrame keeps calling tick (lines 201, 228, 231), so a frame that has
\* something to start is eventually run
SpecFair == Spec /\ WF_vars(TimedSteps) /\ WF_vars(tick)

(***************************************************************************)
(* One animation frame taken on its own: the canvas is past boot, no swap  *)
(* is in progress, and either ref may hold no element (React clears a ref  *)
(* when its element unmounts; the effect's cleanup, which stops the frames,*)
(* runs later).                                                            *)
(***************************************************************************)
\* the element of slot s while clip i of the set clips is loaded in it
LoadedVideo(clips, i, active) ==
    {[src |-> Url(clips, i), ready |-> r, paused |-> ~active, pos |-> p, ended |-> e,
      opacity |-> IF active THEN "1" ELSE "0"] :
        r \in BOOLEAN, p \in (IF active THEN 0..2 ELSE {0}), e \in {FALSE}}
    \cup {[src |-> Url(clips, i), ready |-> r, paused |-> FALSE, pos |-> 2, ended |-> TRUE,
           opacity |-> "1"] : r \in {b \in BOOLEAN : active}}

FrameInit ==
    /\ initialVideoUrls = [u |-> 1, len |-> ClipSetLen]
    /\ clipSet \in {c \in ClipSets : c.len = ClipSetLen}
    /\ clipIndex \in Clips
    /\ activeSlot \in Slots
    /\ swapping = FALSE
    /\ elapsed500 \in BOOLEAN
    /\ slotIdx = [s \in Slots |-> IF s = activeSlot THEN clipIndex
                                   ELSE NextClipIndex(clipIndex, clipSet)]
    /\ pending \in ClipSets \cup {NoSet}
    /\ el \in {e \in [Slots -> UNION {LoadedVideo(clipSet, i, a) : i \in Clips, a \in BOOLEAN}] :
                 \A s \in Slots : e[s] \in LoadedVideo(clipSet, slotIdx[s], s = activeSlot)}
    /\ bootPc = "done"
    /\ inflight = <<>>
    /\ lastDelivered = IF pending.len = ClipSetLen THEN pending ELSE NoSet
    /\ overwritten = NoSet
    /\ refs \in SUBSET Slots
    /\ ran = FALSE

\* the frame under observation runs
TickOnce ==
    /\ ~ran
    /\ ran' = TRUE
    /\ Frame
    /\ UNCHANGED refs
    /\ UNCHANGED <<genVars, createVars, pollVars, uiVars, authVars, pickVars, routeVars, loadVars, tokenVars>>

InitFrame == FrameInit /\ GenIdle /\ CreateIdle /\ PollIdle /\ UiIdle /\ AuthIdle /\ PickIdle /\ RouteIdle /\ LoadIdle /\ TokenIdle

SpecFrame == InitFrame /\ [][TickOnce]_vars

\* worldCanvas.tsx 97-109: the component is rendered with a changed prop (worldId, one
\* of the callbacks, or initialVideoUrls) and the effect copies props.initialVideoUrls
\* into clipSetRef
PropsSynced ==
    /\ \E v \in {c \in ClipSets : c.len = ClipSetLen} :
          /\ initialVideoUrls' = v
          /\ clipSet' = v
    /\ UNCHANGED <<clipIndex, activeSlot, swapping, elapsed500, slotIdx, pending, el,
                   bootPc, inflight, lastDelivered, overwritten>>
    /\ UNCHANGED <<genVars, createVars, pollVars, frameVars, uiVars, authVars, pickVars, routeVars, loadVars, tokenVars>>

PropsNext == PropsSynced \/ TickOnce

SpecProps == InitFrame /\ [][PropsNext]_vars

\* the canvas is not mounted
SchedIdle == SchedInit /\ initialVideoUrls = [u |-> 1, len |-> ClipSetLen]

(***************************************************************************)
(* Claims about the scheduler, checked under Spec.                         *)
(***************************************************************************)
\* routine i makes its standby element visible in this step
Flips(i) ==
    /\ i \in DOMAIN inflight /\ i \in DOMAIN inflight'
    /\ inflight[i].pc = "playDelay" /\ inflight'[i].pc = "preloadWait"

\* routine i returns in this step
Returns(i) ==
    /\ i \in DOMAIN inflight
    /\ inflight[i].pc = "preloadWait"
    /\ Len(inflight') < Len(inflight)

\* a swap routine takes its first await in this step
Starts(kind) ==
    /\ Len(inflight') = Len(inflight) + 1
    /\ inflight'[Len(inflight')].kind = kind

\* C1: at most one swap routine (swapToNextClip or swapToNewClipSet) is in progress at
\* any instant, and swappingRef is true for as long as it is.
C1_OneSwapAtATime ==
    /\ Len(inflight) <= 1
    /\ inflight # <<>> => swapping

\* C1 witness: an ordinary swap is in flight while a valid clip set is pending.
C1_Witness ==
    /\ Len(inflight) = 1 /\ inflight[1].kind = "next"
    /\ pending.len = ClipSetLen

\* C2 as stated: a clip set becomes the active one only if no other valid set was
\* submitted after it, also when that submission came during its own splice.
C2_Original ==
    [][\A i \in DOMAIN inflight :
          (Flips(i) /\ inflight[i].kind = "new") => inflight[i].clips = lastDelivered]_vars

\* C2 amended: a splice that starts is the splice of the valid clip set submitted
\* last; a set replaced while it was pending and not started is never started.
C2_LatestWins ==
    [][Starts("new") =>
          /\ inflight'[Len(inflight')].clips = lastDelivered
          /\ inflight'[Len(inflight')].clips # overwritten]_vars

\* C2 witness: S1 was replaced by S2 while it waited, and the splice of S2 is in flight.
C2_Witness ==
    /\ overwritten # NoSet
    /\ Len(inflight) = 1 /\ inflight[1].kind = "new"
    /\ inflight[1].clips = lastDelivered

\* C3 as stated: a valid clip set submitted while a swap or a splice is in flight is
\* still pending when that operation returns.
C3_PendingSurvives ==
    [][\A i \in DOMAIN inflight :
          (Returns(i) /\ pending.len = ClipSetLen /\ pending # inflight[i].clips)
              => pending' = pending]_vars

\* C4: no URL of a list whose length is not 3 is ever loaded into a video element, no
\* swap routine ever runs on such a list, and clipSetRef holds one only as the initial
\* value that boot refused.
C4_BadLengthRejected ==
    /\ \A s \in Slots : el[s].src.u # PartialUrls
    /\ \A i \in DOMAIN inflight : inflight[i].clips.len = ClipSetLen
    /\ clipSet.len # ClipSetLen =>
          /\ clipSet = initialVideoUrls
          /\ bootPc \in {"start", "rejected"}

\* C4 witness: boot is over, a generation response of another length is pending and
\* was not applied.
C4_Witness ==
    /\ bootPc = "done"
    /\ pending # NoSet /\ pending.len # ClipSetLen
    /\ ~swapping
    /\ clipSet.len = ClipSetLen

\* C5: every completed ordinary swap advances the clip index by one modulo 3.
C5_Looping ==
    [][\A i \in DOMAIN inflight :
          (Flips(i) /\ inflight[i].kind = "next")
              => /\ clipIndex' = (clipIndex + 1) % ClipSetLen
                 /\ clipSet' = clipSet
                 /\ clipSet.len = ClipSetLen]_vars

\* C5 witness: an ordinary swap has just wrapped the index from 2 to 0, nothing pending.
C5_Witness ==
    /\ Len(inflight) = 1 /\ inflight[1].kind = "next" /\ inflight[1].pc = "preloadWait"
    /\ clipIndex = 0
    /\ pending = NoSet

EngineNames ==
    {[set |-> FALSE, name |-> "", upper |-> FALSE, padded |-> FALSE]}
    \cup {[set |-> TRUE, name |-> n, upper |-> u, padded |-> p] :
              n \in {"seedance", "kling", "veo"}, u \in BOOLEAN, p \in BOOLEAN}
    \cup {[set |-> TRUE, name |-> "", upper |-> FALSE, padded |-> p] : p \in BOOLEAN}

\* String.prototype.trim
Trim(v) == [v EXCEPT !.padded = FALSE]

ToLowerCase_Identity(v) == v

\* String.prototype.toLowerCase
ToLowerCase(v) == [v EXCEPT !.upper = FALSE]

\* the text v is exactly the lower-case word n: v === n
Is(v, n) == v.set /\ v.name = n /\ ~v.upper /\ ~v.padded

\* line 307: process.env.VIDEO_GEN_MODEL?.trim().toLowerCase() || "seedance"
resolveEngineName(env) ==
    LET seedance == [set |-> TRUE, name |-> "seedance", upper |-> FALSE, padded |-> FALSE]
        engine == ToLowerCase(Trim(env))
    IN  IF ~env.set THEN seedance
        ELSE IF Is(engine, "") THEN seedance
        ELSE engine

resolveVideoGenerationAdapter(env) ==
    LET engine == resolveEngineName(env)
    IN  IF Is(engine, "kling") THEN "kling"
        ELSE IF Is(engine, "seedance") THEN "seedance"
        ELSE "seedance"

\* the task client the calls of an adapter go to: seedanceGenerateClip (lines 320-322),
\* createKlingTask and pollKlingTask (lines 341-357, 367)
ClientOf(adapter) == IF adapter = "kling" THEN "kling" ELSE "seedance"

\* the arguments of the i-th call: { startImage: frames[i], endImage: frames[i + 1] }
ClipInput(i) == [startImage |-> i, endImage |-> i + 1]

\* what the create step of one call can end as: seedanceGenerateClip up to its
\* return await pollSeedanceTask(...), createKlingTask
SeedanceOutcomes == {"handle", "url", "null", "threw"}
KlingCreateOutcomes == {"handle", "url", "null", "threw"}

Outcomes(adapter) == IF adapter = "kling" THEN KlingCreateOutcomes ELSE SeedanceOutcomes

\* what the poll loop of one task can end as for generateClips: pollSeedanceTask
\* returns a URL or null or lets a fetch error through; the mapped task of
\* klingAdapter returns the URL or throws
PollOutcomes(adapter) == IF adapter = "kling" THEN {"url", "threw"} ELSE {"url", "null", "threw"}

\* seedanceAdapter: the promise of call i is the one of its poll loop once the create
\* step has returned a task id
Composite(calls, polls) ==
    [i \in Clips |-> IF calls[i].st = "handle" THEN polls[i] ELSE calls[i]]

Settled(ps) == \A i \in Clips : ps[i].st \notin {"none", "pending"}
Fulfilled_First(ps) == \E i \in Clips : ps[i].st \in {"url", "handle", "null"}
Fulfilled(ps) == \A i \in Clips : ps[i].st \in {"url", "handle", "null"}

\* Promise.all rejects as soon as one of its promises rejects
RejectsAll_OnAnyFailure(st) == st \in {"null", "threw"}

RejectsAll(st) == st = "threw"

\* the array Promise.all fulfils with, in the order of its argument
PromiseAll_CompletionOrder(ps, ord) == [i \in Clips |-> ps[ord[i + 1]].val]

PromiseAll(ps, ord) == [i \in Clips |-> ps[i].val]

\* clips.every((c) => c?.videoUrl), clips.every(Boolean)
EveryHasUrl_Some(clips) == \E i \in Clips : clips[i] # NoClip

EveryHasUrl(clips) == \A i \in Clips : clips[i] # NoClip

\* the value a settled call or poll carries
ValueOf(i, st) == IF st \in {"url", "handle"} THEN ClipInput(i) ELSE NoClip

MapTask_AlwaysPolls(task) ==
    IF task.st = "null" THEN [st |-> "null", val |-> NoClip]
    ELSE [st |-> "pending", val |-> task.val]

\* tasks.map(async (task, idx) => ...) up to its first await
MapTask(task) ==
    IF task.st = "null" THEN [st |-> "null", val |-> NoClip]
    ELSE IF task.st = "url" THEN [st |-> "url", val |-> task.val]
    ELSE [st |-> "pending", val |-> task.val]

\* the mapped tasks that settle without an await, in the order they are created
RECURSIVE Immediate(_, _)
Immediate(ps, i) ==
    IF i \notin Clips THEN <<>>
    ELSE IF ps[i].st # "pending" THEN <<i>> \o Immediate(ps, i + 1)
    ELSE Immediate(ps, i + 1)

\* generateClips after its last Promise.all fulfilled with clips
Finish(clips) ==
    IF EveryHasUrl(clips)
    THEN genPc' = "resolved" /\ result' = clips
    ELSE genPc' = "rejected" /\ result' = result

GenInit ==
    /\ envModel \in EngineNames
    /\ client = [i \in Clips |-> "none"]
    /\ genPc = "frames"
    /\ call = [i \in Clips |-> [st |-> "none", val |-> NoClip]]
    /\ poll = [i \in Clips |-> [st |-> "none", val |-> NoClip]]
    /\ polled = [i \in Clips |-> 0]
    /\ order = <<>>
    /\ result = <<>>

\* await Promise.all(input.frames.map(ensureDataUrl480p)); then the three calls start
FramesPrepared ==
    /\ genPc = "frames"
    /\ \E ok \in BOOLEAN :
          IF ok
          THEN /\ genPc' = "calls"
               /\ call' = [i \in Clips |-> [st |-> "pending", val |-> NoClip]]
               /\ client' = [i \in Clips |->
                                ClientOf(resolveVideoGenerationAdapter(envModel))]
          ELSE /\ genPc' = "rejected"
               /\ call' = call
               /\ client' = client
    /\ UNCHANGED <<envModel, poll, polled, order, result>>
    /\ UNCHANGED <<schedVars, createVars, pollVars, frameVars, uiVars, authVars, pickVars, routeVars, loadVars, tokenVars>>

\* generateClips, suspended in the Promise.all it entered at position awaiting, when
\* one of the promises ps settled as st
Resume(awaiting, ps, st, ord) ==
    IF genPc # awaiting
    THEN UNCHANGED <<genPc, order, result>>
    ELSE IF RejectsAll(st)
    THEN genPc' = "rejected" /\ UNCHANGED <<order, result>>
    ELSE IF ~Fulfilled(ps)
    THEN order' = ord /\ UNCHANGED <<genPc, result>>
    ELSE Finish(PromiseAll(ps, ord)) /\ order' = ord

\* seedanceAdapter: the create step of call i ends; with a task id the call goes
\* on to poll, otherwise the call settles
SeedanceCallSettles(i) ==
    /\ resolveVideoGenerationAdapter(envModel) = "seedance"
    /\ call[i].st = "pending"
    /\ \E st \in Outcomes("seedance") :
          LET calls == [call EXCEPT ![i] = [st |-> st, val |-> ValueOf(i, st)]]
          IN  /\ call' = calls
              /\ IF st = "handle"
                 THEN /\ poll' = [poll EXCEPT ![i] = [st |-> "pending", val |-> ValueOf(i, st)]]
                      /\ UNCHANGED <<genPc, order, result>>
                 ELSE /\ poll' = poll
                      /\ Resume("calls", Composite(calls, poll), st, Append(order, i))
    /\ UNCHANGED <<envModel, client, polled>>
    /\ UNCHANGED <<schedVars, createVars, pollVars, frameVars, uiVars, authVars, pickVars, routeVars, loadVars, tokenVars>>

\* klingAdapter: createKlingTask of call i settles; when it is the last one the tasks
\* are mapped and the second Promise.all is entered
KlingCallSettles(i) ==
    /\ resolveVideoGenerationAdapter(envModel) = "kling"
    /\ call[i].st = "pending"
    /\ \E st \in Outcomes("kling") :
          LET calls == [call EXCEPT ![i] = [st |-> st, val |-> ValueOf(i, st)]]
              polls == [j \in Clips |-> MapTask(calls[j])]
          IN  /\ call' = calls
              /\ IF genPc # "calls"
                 THEN UNCHANGED <<genPc, poll, order, result>>
                 ELSE IF RejectsAll(st)
                 THEN genPc' = "rejected" /\ UNCHANGED <<poll, order, result>>
                 ELSE IF ~Fulfilled(calls)
                 THEN order' = Append(order, i) /\ UNCHANGED <<genPc, poll, result>>
                 ELSE /\ poll' = polls
                      /\ order' = Immediate(polls, 0)
                      /\ IF Settled(polls)
                         THEN Finish(PromiseAll(polls, Immediate(polls, 0)))
                         ELSE genPc' = "polls" /\ result' = result
    /\ UNCHANGED <<envModel, client, polled>>
    /\ UNCHANGED <<schedVars, createVars, pollVars, frameVars, uiVars, authVars, pickVars, routeVars, loadVars, tokenVars>>

\* a poll request of task i is answered without a terminal status
PollNotReady(i) ==
    /\ poll[i].st = "pending"
    /\ polled[i] + 1 < MaxGenPolls
    /\ polled' = [polled EXCEPT ![i] = @ + 1]
    /\ UNCHANGED <<envModel, client, genPc, call, poll, order, result>>
    /\ UNCHANGED <<schedVars, createVars, pollVars, frameVars, uiVars, authVars, pickVars, routeVars, loadVars, tokenVars>>

\* the poll loop of task i ends: with the video URL of a poll response, or without
\* one (a response with a failed status, a thrown fetch, or the timeout, which takes
\* no request)
PollSettles(i) ==
    /\ poll[i].st = "pending"
    /\ \E st \in PollOutcomes(resolveVideoGenerationAdapter(envModel)), timeout \in BOOLEAN :
          LET polls == [poll EXCEPT ![i] = [st |-> st,
                                            val |-> IF st = "url" THEN poll[i].val ELSE NoClip]]
              ord   == Append(order, i)
          IN  /\ st = "url" => ~timeout
              /\ poll' = polls
              /\ polled' = [polled EXCEPT ![i] = IF timeout THEN @ ELSE @ + 1]
              /\ IF resolveVideoGenerationAdapter(envModel) = "kling"
                 THEN Resume("polls", polls, st, ord)
                 ELSE Resume("calls", Composite(call, polls), st, ord)
    /\ UNCHANGED <<envModel, client, call>>
    /\ UNCHANGED <<schedVars, createVars, pollVars, frameVars, uiVars, authVars, pickVars, routeVars, loadVars, tokenVars>>

GenNext ==
    \/ FramesPrepared
    \/ \E i \in Clips : SeedanceCallSettles(i)
    \/ \E i \in Clips : KlingCallSettles(i)
    \/ \E i \in Clips : PollNotReady(i)
    \/ \E i \in Clips : PollSettles(i)

InitGen == GenInit /\ SchedIdle /\ CreateIdle /\ PollIdle /\ FrameIdle /\ UiIdle /\ AuthIdle /\ PickIdle /\ RouteIdle /\ LoadIdle /\ TokenIdle

SpecGen == InitGen /\ [][GenNext]_vars

(***************************************************************************)
(* Claims about generateClips, checked under SpecGen.                      *)
(***************************************************************************)
\* call i failed: it returned no URL, threw, or its task was polled without a URL
Failed(i) == call[i].st \in {"null", "threw"} \/ poll[i].st \in {"null", "threw"}

\* call i produced its video URL
Succeeded(i) == call[i].st = "url" \/ poll[i].st = "url"

\* a promise generateClips started is not settled yet
SomePending == \E i \in Clips : call[i].st = "pending" \/ poll[i].st = "pending"

SomeThrew == \E i \in Clips : call[i].st = "threw" \/ poll[i].st = "threw"

\* C7: when generateClips returns, it returns three video URLs; when one of the
\* three generations failed, it does not return.
C7_Atomicity ==
    /\ genPc = "resolved" =>
          /\ DOMAIN result = Clips
          /\ \A i \in Clips : result[i] # NoClip
    /\ (\E i \in Clips : Failed(i)) => genPc # "resolved"

\* C7 witness: exactly one generation failed, the two others produced their URL, and
\* generateClips rejected.
C7_Witness ==
    /\ genPc = "rejected"
    /\ Cardinality({i \in Clips : Failed(i)}) = 1
    /\ Cardinality({i \in Clips : Succeeded(i)}) = 2

\* C8: the array generateClips returns has at position i the clip generated from
\* frame i to frame i + 1, whatever the order in which the generations completed.
C8_PositionalOrder ==
    genPc = "resolved" =>
        \A i \in Clips : result[i] = [startImage |-> i, endImage |-> i + 1]

\* C8 witness: generateClips returned after the generations completed in the order
\* last, middle, first.
C8_Witness ==
    /\ genPc = "resolved"
    /\ order = <<2, 1, 0>>

C15_ImmediateUrls ==
    (\A i \in Clips : call[i].st = "url") =>
        /\ genPc = "resolved"
        /\ \A i \in Clips : result[i] = [startImage |-> i, endImage |-> i + 1]
        /\ \A i \in Clips : polled[i] = 0 /\ poll[i].st # "pending"

\* C15 witness: the three immediate URLs arrived last call first.
C15_Witness ==
    /\ \A i \in Clips : call[i].st = "url"
    /\ order = <<2, 1, 0>>
    /\ genPc = "resolved"

\* every create call returned a task id
AllTasks == \A i \in Clips : call[i].st = "handle"

\* C16: when each create call returns a task id, generateClips has not returned while
\* a poll loop is unresolved, and once the three loops have resolved with their URLs
\* (each on its second poll) it has returned them in submission order.
C16_PolledUrlsInOrder ==
    AllTasks =>
        /\ (\E i \in Clips : poll[i].st \in {"none", "pending"}) => genPc # "resolved"
        /\ (\A i \in Clips : poll[i].st = "url") =>
              /\ genPc = "resolved"
              /\ \A i \in Clips : result[i] = [startImage |-> i, endImage |-> i + 1]

\* C16 witness: each task was running at its first poll and succeeded at its second,
\* the middle clip first, and generateClips returned.
C16_Witness ==
    /\ AllTasks
    /\ \A i \in Clips : poll[i].st = "url" /\ polled[i] = 2
    /\ order = <<1, 2, 0>>
    /\ genPc = "resolved"

(***************************************************************************)
(* The create request of a task client.                                    *)
(* A number is [nan, num] so that Number("abc") is representable; an       *)
(* environment value is [set, nan, num], the number its text denotes.      *)
(***************************************************************************)
EnvValues ==
    {[set |-> FALSE, nan |-> FALSE, num |-> 0], [set |-> TRUE, nan |-> TRUE, num |-> 0]}
        \cup {[set |-> TRUE, nan |-> FALSE, num |-> n] : n \in (-1)..MaxEnvAttempts}

\* Number(process.env.KLING_CREATE_ATTEMPTS ?? "3")
NumberOfEnv(e) ==
    IF e.set THEN [nan |-> e.nan, num |-> e.num]
    ELSE [nan |-> FALSE, num |-> DefaultCreateAttempts]

\* Math.max(1, x)
MathMax1(x) == IF x.nan THEN x ELSE [nan |-> FALSE, num |-> IF x.num > 1 THEN x.num ELSE 1]

maxAttempts == MathMax1(NumberOfEnv(envAttempts))

\* attempt <= maxAttempts, attempt < maxAttempts (false when maxAttempts is NaN)
AttemptLe(a, max) == ~max.nan /\ a <= max.num
AttemptLt(a, max) == ~max.nan /\ a < max.num

\* what a create request can end as: fetch throws, or an HTTP status
HttpStatuses == {200, 400, 404, 408, 425, 429, 500, 503}
\* what a create request can end as: fetch throws, or an HTTP status; code is the
\* code of the JSON body of a 429 response: 1303, or 0 for any other code, no code or
\* a body that is not JSON
CreateResponses ==
    {[kind |-> "neterr", status |-> 0, code |-> 0]}
    \cup {[kind |-> "http", status |-> st, code |-> 0] : st \in HttpStatuses}
    \cup {[kind |-> "http", status |-> 429, code |-> 1303]}

\* Response.ok
Ok(r) == r.kind = "http" /\ r.status >= 200 /\ r.status <= 299

isRetryableStatus_AnyError(status) == status >= 400

isRetryableStatus(status) == status = 408 \/ status = 425 \/ status = 429 \/ status >= 500

computeRetryDelayMs_Flat(status, code, a) == 700

\* lines 135-143
computeRetryDelayMs(status, code, a) ==
    IF status = 429 /\ code = 1303 THEN 3000 + a * 1000 ELSE 700 * a

\* line 280: sleep(600 * attempt) after fetch threw
FetchErrorDelayMs(a) == 600 * a

\* createKlingTask: retry after fetch threw
RetryFetchError(a, max) == AttemptLt(a, max)

\* createKlingTask: retry after a non-2xx response
RetryHttpError_OffByOne(a, max, status) == AttemptLe(a, max) /\ isRetryableStatus(status)

RetryHttpError(a, max, status) == AttemptLt(a, max) /\ isRetryableStatus(status)

\* what a 2xx create response yields: a task handle, an immediate video URL, or null
CreatedValues == {"handle", "url", "null"}

CreateInit ==
    /\ backend \in {"kling", "seedance"}
    /\ envAttempts \in EnvValues
    /\ attempt = 1
    /\ createPc = "loop"
    /\ sent = 0
    /\ responses = <<>>
    /\ delays = <<>>
    /\ created = "none"

\* createKlingTask: the loop test, then fetch(createUrl) of this attempt
KlingCreateRequest ==
    /\ backend = "kling"
    /\ createPc = "loop"
    /\ IF AttemptLe(attempt, maxAttempts)
       THEN createPc' = "fetch" /\ sent' = sent + 1 /\ created' = created
       ELSE createPc' = "returned" /\ sent' = sent /\ created' = "null"
    /\ UNCHANGED <<backend, envAttempts, attempt, responses, delays>>
    /\ UNCHANGED <<schedVars, genVars, pollVars, frameVars, uiVars, authVars, pickVars, routeVars, loadVars, tokenVars>>

\* createKlingTask: the request of this attempt ends
KlingCreateResponse ==
    /\ backend = "kling"
    /\ createPc = "fetch"
    /\ \E r \in CreateResponses :
          /\ responses' = Append(responses, r)
          /\ IF r.kind = "neterr"
             THEN /\ IF RetryFetchError(attempt, maxAttempts)
                     THEN /\ createPc' = "sleep"
                          /\ delays' = Append(delays, FetchErrorDelayMs(attempt))
                     ELSE /\ createPc' = "threw"
                          /\ delays' = delays
                  /\ created' = created
             ELSE IF ~Ok(r)
             THEN /\ IF RetryHttpError(attempt, maxAttempts, r.status)
                     THEN /\ createPc' = "sleep"
                          /\ delays' = Append(delays,
                                              computeRetryDelayMs(r.status, r.code, attempt))
                     ELSE /\ createPc' = "threw"
                          /\ delays' = delays
                  /\ created' = created
             ELSE /\ createPc' = "returned"
                  /\ created' \in CreatedValues
                  /\ delays' = delays
    /\ UNCHANGED <<backend, envAttempts, attempt, sent>>
    /\ UNCHANGED <<schedVars, genVars, pollVars, frameVars, uiVars, authVars, pickVars, routeVars, loadVars, tokenVars>>

\* createKlingTask: the retry delay is over, continue with the next attempt
KlingRetryDelay ==
    /\ backend = "kling"
    /\ createPc = "sleep"
    /\ attempt' = attempt + 1
    /\ createPc' = "loop"
    /\ UNCHANGED <<backend, envAttempts, sent, responses, delays, created>>
    /\ UNCHANGED <<schedVars, genVars, pollVars, frameVars, uiVars, authVars, pickVars, routeVars, loadVars, tokenVars>>

\* seedanceGenerateClip: the one fetch of the create endpoint
SeedanceCreateRequest ==
    /\ backend = "seedance"
    /\ createPc = "loop"
    /\ createPc' = "fetch"
    /\ sent' = sent + 1
    /\ UNCHANGED <<backend, envAttempts, attempt, responses, delays, created>>
    /\ UNCHANGED <<schedVars, genVars, pollVars, frameVars, uiVars, authVars, pickVars, routeVars, loadVars, tokenVars>>

\* seedanceGenerateClip: the create request ends; a thrown fetch propagates, a non-2xx
\* response throws
SeedanceCreateResponse ==
    /\ backend = "seedance"
    /\ createPc = "fetch"
    /\ \E r \in CreateResponses :
          /\ responses' = Append(responses, r)
          /\ IF Ok(r)
             THEN createPc' = "returned" /\ created' \in CreatedValues
             ELSE createPc' = "threw" /\ created' = created
    /\ UNCHANGED <<backend, envAttempts, attempt, sent, delays>>
    /\ UNCHANGED <<schedVars, genVars, pollVars, frameVars, uiVars, authVars, pickVars, routeVars, loadVars, tokenVars>>

CreateNext ==
    \/ KlingCreateRequest
    \/ KlingCreateResponse
    \/ KlingRetryDelay
    \/ SeedanceCreateRequest
    \/ SeedanceCreateResponse

InitCreate == CreateInit /\ SchedIdle /\ GenIdle /\ PollIdle /\ FrameIdle /\ UiIdle /\ AuthIdle /\ PickIdle /\ RouteIdle /\ LoadIdle /\ TokenIdle

SpecCreate == InitCreate /\ [][CreateNext]_vars

(***************************************************************************)
(* The poll loop of a task client.                                         *)
(* A poll request ends as fetch throwing (kind "neterr"), as a non-2xx     *)
(* response, as a 2xx response whose body is not JSON (json = FALSE), or   *)
(* as a task document with a status (written in upper case, as the code    *)
(* compares it) and possibly a video URL.                                  *)
(***************************************************************************)
PollStatuses == {"RUNNING", "SUCCEEDED", "COMPLETED", "FAILED", "ERROR"}

PollResponses ==
    {[kind |-> "neterr", status |-> 0, json |-> FALSE, task |-> "", url |-> FALSE],
     [kind |-> "http", status |-> 500, json |-> FALSE, task |-> "", url |-> FALSE],
     [kind |-> "http", status |-> 200, json |-> FALSE, task |-> "", url |-> FALSE]}
    \cup {[kind |-> "http", status |-> 200, json |-> TRUE, task |-> t, url |-> FALSE] :
             t \in PollStatuses}
    \cup {[kind |-> "http", status |-> 200, json |-> TRUE, task |-> t, url |-> TRUE] :
             t \in {"SUCCEEDED", "COMPLETED"}}

isStatusFailed_OnlyFailed(status) == status = "FAILED"

\* kling.ts 204-207, seedance 100-103 and 110-113
isStatusFailed(status) == status = "FAILED" \/ status = "ERROR"

\* kling.ts 193-202
KlingIsStatusFinished(status) ==
    status \in {"SUCCEEDED", "SUCCESS", "SUCCEED", "FINISHED", "COMPLETED"}

\* seedance 95-98 and 105-108
SeedanceIsStatusFinished(status) == status \in {"SUCCEEDED", "SUCCESS", "FINISHED"}

\* timeoutMs in units of the inter-poll delay
PollTimeout(b) == IF b = "kling" THEN TimeoutSleeps + 1 ELSE TimeoutSleeps

TimedOut_AtOnce(b, t) == TRUE

\* Date.now() - started > timeoutMs
TimedOut(b, t) == t > PollTimeout(b)

\* the clock does not need to be followed beyond the timeout
Later(b, t, d) == IF t + d > PollTimeout(b) THEN PollTimeout(b) + 1 ELSE t + d

\* one pass of the body of pollKlingTask after the request ended as r
pollKlingTask(r) ==
    IF r.kind = "neterr" THEN [pc |-> "top", result |-> "none"]
    ELSE IF ~Ok(r) THEN [pc |-> "top", result |-> "none"]
    ELSE IF ~r.json THEN [pc |-> "top", result |-> "none"]
    ELSE IF isStatusFailed(r.task) THEN [pc |-> "returned", result |-> "null"]
    ELSE IF ~KlingIsStatusFinished(r.task) THEN [pc |-> "top", result |-> "none"]
    ELSE IF ~r.url THEN [pc |-> "returned", result |-> "null"]
    ELSE [pc |-> "returned", result |-> "url"]

\* one pass of the body of pollSeedanceTask after the request ended as r; the fetch
\* is not in a try block
pollSeedanceTask(r) ==
    IF r.kind = "neterr" THEN [pc |-> "threw", result |-> "none"]
    ELSE IF ~Ok(r) THEN [pc |-> "top", result |-> "none"]
    ELSE IF ~r.json THEN [pc |-> "top", result |-> "none"]
    ELSE IF isStatusFailed(r.task) THEN [pc |-> "returned", result |-> "null"]
    ELSE IF ~SeedanceIsStatusFinished(r.task) THEN [pc |-> "top", result |-> "none"]
    ELSE IF ~r.url THEN [pc |-> "returned", result |-> "null"]
    ELSE [pc |-> "returned", result |-> "url"]

PollInit ==
    /\ pollBackend \in {"kling", "seedance"}
    /\ pollPc = "top"
    /\ elapsed = 0
    /\ pollReqs = <<>>
    /\ pollLog = <<>>
    /\ pollResult = "none"

\* while (true) { if (Date.now() - started > timeoutMs) return null; await sleep(1500)
PollLoopTop ==
    /\ pollPc = "top"
    /\ IF TimedOut(pollBackend, elapsed)
       THEN pollPc' = "returned" /\ pollResult' = "null"
       ELSE pollPc' = "sleep" /\ pollResult' = pollResult
    /\ UNCHANGED <<pollBackend, elapsed, pollReqs, pollLog>>
    /\ UNCHANGED <<schedVars, genVars, createVars, frameVars, uiVars, authVars, pickVars, routeVars, loadVars, tokenVars>>

SleepOver_NotAwaited ==
    pollPc = "sleep" \/ (pollPc = "fetch" /\ Len(pollReqs) = Len(pollLog) + 1)

\* await sleep(1500): the loop is suspended until the timer has fired, and it is at
\* the sleep only when the previous pass has ended
SleepOver == pollPc = "sleep"

\* the 1500 ms are over: the loop sends its next request, a GET of the task
PollRequest ==
    /\ SleepOver
    /\ pollPc' = "fetch"
    /\ elapsed' = Later(pollBackend, elapsed, 1)
    /\ pollReqs' = Append(pollReqs, [method |-> "GET", url |-> "task"])
    /\ UNCHANGED <<pollBackend, pollLog, pollResult>>
    /\ UNCHANGED <<schedVars, genVars, createVars, frameVars, uiVars, authVars, pickVars, routeVars, loadVars, tokenVars>>

\* the request ends (at once, or one more delay later) and the loop body runs on it
PollResponse ==
    /\ pollPc = "fetch"
    /\ \E r \in PollResponses, d \in {0, 1} :
          LET out == IF pollBackend = "kling" THEN pollKlingTask(r) ELSE pollSeedanceTask(r)
          IN  /\ pollLog' = Append(pollLog, r)
              /\ elapsed' = Later(pollBackend, elapsed, d)
              /\ pollPc' = out.pc
              /\ pollResult' = out.result
    /\ UNCHANGED <<pollBackend, pollReqs>>
    /\ UNCHANGED <<schedVars, genVars, createVars, frameVars, uiVars, authVars, pickVars, routeVars, loadVars, tokenVars>>

PollNext ==
    \/ PollLoopTop
    \/ PollRequest
    \/ PollResponse

InitPoll == PollInit /\ SchedIdle /\ GenIdle /\ CreateIdle /\ FrameIdle /\ UiIdle /\ AuthIdle /\ PickIdle /\ RouteIdle /\ LoadIdle /\ TokenIdle

SpecPoll == InitPoll /\ [][PollNext]_vars

\* the process runs: the loop takes its next step, timers fire and requests end
SpecPollFair == SpecPoll /\ WF_vars(PollNext)

(***************************************************************************)
(* One generateVideo call of the canvas (worldCanvas.tsx 494-533), from    *)
(* any state past boot, followed by one animation frame.                   *)
(***************************************************************************)
\* what POST /api/worlds/:id/step can be answered with: fetch throws, a non-2xx
\* status (its body holds no videoUrls), or a 2xx status with videoUrls
StepResponses ==
    {[kind |-> "neterr", status |-> 0, videoUrls |-> NoSet]}
    \cup {[kind |-> "http", status |-> st, videoUrls |-> NoSet] : st \in HttpStatuses \ {200}}
    \cup {[kind |-> "http", status |-> 200, videoUrls |-> v] : v \in ClipSets}

ResOk_Always(r) == TRUE

\* line 502: res.ok
ResOk(r) == Ok(r)

\* lines 494-501: onLoading(true) and the request is sent
generateVideo ==
    /\ stepPc = "idle"
    /\ stepPc' = "fetch"
    /\ loading' = TRUE
    /\ UNCHANGED <<stateCreated, stepRes, stepError>>
    /\ UNCHANGED <<schedVars, genVars, createVars, pollVars, frameVars, authVars, pickVars, routeVars, loadVars, tokenVars>>

\* lines 497-532: the request is answered
StepAnswered ==
    /\ stepPc = "fetch"
    /\ \E r \in StepResponses :
          /\ stepRes' = r
          /\ IF r.kind = "neterr"
             THEN /\ stepPc' = "failed"
                  /\ loading' = FALSE
                  /\ UNCHANGED <<schedVars, stateCreated, stepError>>
             ELSE IF ~ResOk(r)
             THEN /\ stepPc' = "failed"
                  /\ stepError' = r.status
                  /\ loading' = FALSE
                  /\ UNCHANGED <<schedVars, stateCreated>>
             ELSE /\ stepPc' = "done"
                  /\ StepOk(r.videoUrls)
                  /\ UNCHANGED stepError
    /\ UNCHANGED <<genVars, createVars, pollVars, frameVars, authVars, pickVars, routeVars, loadVars, tokenVars>>

StepNext == generateVideo \/ StepAnswered \/ TickOnce

InitStep == FrameInit /\ GenIdle /\ CreateIdle /\ PollIdle /\ UiIdle /\ AuthIdle /\ PickIdle /\ RouteIdle /\ LoadIdle /\ TokenIdle

SpecStep == InitStep /\ [][StepNext]_vars

(***************************************************************************)
(* The authorization headers of klingAdapter.generateClips: three          *)
(* createKlingTask calls, each computing its header from the clock, and    *)
(* the poll loops of the tasks they return.                                *)
(***************************************************************************)
\* kling.ts 64-83: the token is a function of the keys and of the second it is made in
createJwtToken(t) == [iat |-> t]

\* kling.ts 85-92
resolveAuthHeader(t) == createJwtToken(t)

PollHeaders_Recomputed(i, t) == resolveAuthHeader(t)

\* pollKlingTask: fetchWithTimeout(taskUrl, { headers: input.headers }, ...), where
\* input.headers is task.handle.headers of the mapped task
PollHeaders(i, t) == handle[i].headers

\* the calls are entered in the order of the array literal
AuthInit ==
    /\ now = 0
    /\ authPc = [i \in Clips |-> "idle"]
    /\ authHeader = [i \in Clips |-> NoHeader]
    /\ handle = [i \in Clips |-> NoHandle]
    /\ nextTaskId = 1
    /\ pollAuth = [i \in Clips |-> <<>>]

\* a second passes
SecondPasses ==
    /\ now < MaxSeconds
    /\ now' = now + 1
    /\ UNCHANGED <<authPc, authHeader, handle, nextTaskId, pollAuth>>
    /\ UNCHANGED <<schedVars, genVars, createVars, pollVars, frameVars, uiVars, pickVars, routeVars, loadVars, tokenVars>>

\* createKlingTask of call i runs up to its first fetch: const authHeader =
\* resolveAuthHeader(); headers = { ..., authorization: authHeader }
KlingCreateStarts(i) ==
    /\ authPc[i] = "idle"
    /\ \A j \in Clips : j < i => authPc[j] # "idle"
    /\ authPc' = [authPc EXCEPT ![i] = "creating"]
    /\ authHeader' = [authHeader EXCEPT ![i] = resolveAuthHeader(now)]
    /\ UNCHANGED <<now, handle, nextTaskId, pollAuth>>
    /\ UNCHANGED <<schedVars, genVars, createVars, pollVars, frameVars, uiVars, pickVars, routeVars, loadVars, tokenVars>>

\* createKlingTask of call i returns { handle: { taskId, headers, baseUrl } } with the
\* task id the backend issued, or ends without a handle
KlingCreateReturns(i) ==
    /\ authPc[i] = "creating"
    /\ \E ok \in BOOLEAN :
          IF ok
          THEN /\ authPc' = [authPc EXCEPT ![i] = "created"]
               /\ handle' = [handle EXCEPT ![i] =
                                 [taskId |-> nextTaskId, headers |-> authHeader[i]]]
               /\ nextTaskId' = nextTaskId + 1
          ELSE /\ authPc' = [authPc EXCEPT ![i] = "failed"]
               /\ UNCHANGED <<handle, nextTaskId>>
    /\ UNCHANGED <<now, authHeader, pollAuth>>
    /\ UNCHANGED <<schedVars, genVars, createVars, pollVars, frameVars, uiVars, pickVars, routeVars, loadVars, tokenVars>>

\* the poll loop of task i, entered once the first Promise.all has fulfilled, sends a
\* request
KlingPollSends(i) ==
    /\ \A j \in Clips : authPc[j] \in {"created", "polled"}
    /\ authPc[i] = "created"
    /\ Len(pollAuth[i]) < MaxGenPolls
    /\ pollAuth' = [pollAuth EXCEPT ![i] =
                        Append(@, [taskId |-> handle[i].taskId,
                                   authorization |-> PollHeaders(i, now)])]
    /\ UNCHANGED <<now, authPc, authHeader, handle, nextTaskId>>
    /\ UNCHANGED <<schedVars, genVars, createVars, pollVars, frameVars, uiVars, pickVars, routeVars, loadVars, tokenVars>>

\* the poll loop of task i returns
KlingPollEnds(i) ==
    /\ \A j \in Clips : authPc[j] \in {"created", "polled"}
    /\ authPc[i] = "created"
    /\ authPc' = [authPc EXCEPT ![i] = "polled"]
    /\ UNCHANGED <<now, authHeader, handle, nextTaskId, pollAuth>>
    /\ UNCHANGED <<schedVars, genVars, createVars, pollVars, frameVars, uiVars, pickVars, routeVars, loadVars, tokenVars>>

AuthNext ==
    \/ SecondPasses
    \/ \E i \in Clips : KlingCreateStarts(i)
    \/ \E i \in Clips : KlingCreateReturns(i)
    \/ \E i \in Clips : KlingPollSends(i)
    \/ \E i \in Clips : KlingPollEnds(i)

InitAuth == AuthInit /\ SchedIdle /\ GenIdle /\ CreateIdle /\ PollIdle /\ FrameIdle /\ UiIdle /\ PickIdle /\ RouteIdle /\ LoadIdle /\ TokenIdle

SpecAuth == InitAuth /\ [][AuthNext]_vars

(***************************************************************************)
(* The last pass of a poll loop: the response reports a finished status    *)
(* and the loop takes the video URL out of the task document.  A field of  *)
(* the document is absent or holds a string: the empty string, an absolute *)
(* URL that looks like a video ("video"), another absolute URL ("plain"),  *)
(* or a string that is no absolute URL, such as a path or a file id        *)
(* ("ref").  A URL is followed by the field it came from.                  *)
(***************************************************************************)
UrlKinds == {"absent", "empty", "video", "plain", "ref"}

\* the known fields of each backend in the order the code reads them
KnownFields(b) ==
    IF b = "kling" THEN <<"video_url", "videoUrl", "url", "videos", "task_result">>
    ELSE <<"video_url", "videoUrl", "url">>

\* the fields in the order Object.values visits them
DocOrder == <<"video_url", "videoUrl", "url", "videos", "task_result", "other">>

\* the fields the schema of each backend declares as z.string().url()
UrlTyped(b) ==
    IF b = "kling" THEN {"video_url", "videoUrl", "url", "videos"}
    ELSE {"video_url", "videoUrl", "url"}

\* the task documents a backend can answer with; well is FALSE when some field other
\* than the URL fields does not have the type its schema declares
Docs(b) ==
    {d \in [well : BOOLEAN, f : [DocFields -> UrlKinds]] :
        b = "seedance" => (d.f["videos"] = "absent" /\ d.f["task_result"] = "absent")}

\* value.field, undefined when the field is absent
Field(d, x) == IF d.f[x] = "absent" THEN NoUrl ELSE [from |-> x, kind |-> d.f[x]]

\* a ?? b
Coalesce(a, b) == IF a = NoUrl THEN b ELSE a

\* z.string().url()
IsUrl(k) == k \in {"video", "plain"}

\* KlingTaskResponse.safeParse(pollJson).success, SeedanceTaskResponse.safeParse
safeParse(b, d) ==
    /\ d.well
    /\ \A x \in UrlTyped(b) : d.f[x] = "absent" \/ IsUrl(d.f[x])

\* kling.ts 149-153
pickVideoUrl(d) ==
    Coalesce(Field(d, "video_url"),
        Coalesce(Field(d, "videoUrl"), Coalesce(Field(d, "url"), Field(d, "videos"))))

\* seedance 51-55
pickVideoUrlFromTask(d) ==
    Coalesce(Field(d, "video_url"), Coalesce(Field(d, "videoUrl"), Field(d, "url")))

\* kling.ts 155-177: the first string, in document order, that starts with http:// or
\* https:// and contains .mp4 or /video
RECURSIVE ScanFrom(_, _)
ScanFrom(d, k) ==
    IF k > Len(DocOrder) THEN NoUrl
    ELSE IF d.f[DocOrder[k]] = "video" THEN Field(d, DocOrder[k])
    ELSE ScanFrom(d, k + 1)

findFirstVideoUrl(d) == ScanFrom(d, 1)

\* kling.ts 179-183: an absolute URL is kept, anything else is put behind the base URL
normalizeVideoUrl(v) == IF IsUrl(v.kind) THEN v ELSE [v EXCEPT !.kind = "based"]

\* a string used as a condition
Truthy(v) == v # NoUrl /\ v.kind # "empty"

\* pollKlingTask 393-407
KlingFinalUrl(d) ==
    LET ok          == safeParse("kling", d)
        videoUrl    == IF ok THEN pickVideoUrl(d) ELSE NoUrl
        resultUrl   == IF ok THEN Field(d, "task_result") ELSE NoUrl
        fallbackUrl == findFirstVideoUrl(d)
        rawUrl      == Coalesce(Coalesce(videoUrl, resultUrl), fallbackUrl)
    IN  IF Truthy(rawUrl) THEN normalizeVideoUrl(rawUrl) ELSE NoUrl

\* pollSeedanceTask 274-288
SeedanceFinalUrl(d) ==
    LET ok          == safeParse("seedance", d)
        videoUrl    == IF ok THEN pickVideoUrlFromTask(d) ELSE NoUrl
        fallbackUrl == findFirstVideoUrl(d)
        final       == Coalesce(videoUrl, fallbackUrl)
    IN  IF Truthy(final) THEN final ELSE NoUrl

PickInit ==
    /\ pickBackend \in {"kling", "seedance"}
    /\ pollJson \in Docs(pickBackend)
    /\ pickPc = "finished"
    /\ finalUrl = NoUrl

\* pollKlingTask returns on the finished response
KlingFinished ==
    /\ pickBackend = "kling"
    /\ pickPc = "finished"
    /\ pickPc' = "returned"
    /\ finalUrl' = KlingFinalUrl(pollJson)
    /\ UNCHANGED <<pickBackend, pollJson>>
    /\ UNCHANGED <<schedVars, genVars, createVars, pollVars, frameVars, uiVars, authVars, routeVars, loadVars, tokenVars>>

\* pollSeedanceTask returns on the finished response
SeedanceFinished ==
    /\ pickBackend = "seedance"
    /\ pickPc = "finished"
    /\ pickPc' = "returned"
    /\ finalUrl' = SeedanceFinalUrl(pollJson)
    /\ UNCHANGED <<pickBackend, pollJson>>
    /\ UNCHANGED <<schedVars, genVars, createVars, pollVars, frameVars, uiVars, authVars, routeVars, loadVars, tokenVars>>

PickNext ==
    \/ KlingFinished
    \/ SeedanceFinished

InitPick == PickInit /\ SchedIdle /\ GenIdle /\ CreateIdle /\ PollIdle /\ FrameIdle /\ UiIdle /\ AuthIdle /\ RouteIdle /\ LoadIdle /\ TokenIdle

SpecPick == InitPick /\ [][PickNext]_vars

(***************************************************************************)
(* The step endpoint (route.ts) from the clip generation on: three         *)
(* seedanceGenerateClip calls joined by Promise.all inside a try block,    *)
(* persistVideoUrls, createWorldState, the suggested actions, the          *)
(* response.  An exception outside the try block leaves the handler and    *)
(* the framework answers with status 500.                                  *)
(***************************************************************************)
\* seedanceGenerateClip resolves with { videoUrl }, resolves with null, or rejects
ClipResults == {"url", "null", "threw"}

AllHaveVideoUrl_Some(cs) == \E i \in Clips : cs[i] = "url"

\* clips.every((c) => c?.videoUrl)
AllHaveVideoUrl(cs) == \A i \in Clips : cs[i] = "url"

\* return NextResponse.json(..., { status }) or an exception leaving the handler
Respond(status, urls) ==
    /\ routePc' = "responded"
    /\ httpStatus' = status
    /\ bodyHasUrls' = urls

RouteInit ==
    /\ routePc = "storyboard"
    /\ storyboard = "none"
    /\ clips3 = [i \in Clips |-> "none"]
    /\ httpStatus = 0
    /\ bodyHasUrls = FALSE
    /\ worldStates = 0
    /\ actionsStored = FALSE

\* route.ts 123-207: the frames are those of the storyboard the request names (404 when
\* it is not one of this world) or of a storyboard generated and stored now (502 when
\* that fails); 502 as well when the four frames are not distinct
RouteStoryboard ==
    /\ routePc = "storyboard"
    /\ \E src \in {"existing", "generated"}, found \in BOOLEAN, distinct \in BOOLEAN :
          /\ storyboard' = IF found THEN src ELSE storyboard
          /\ IF ~found
             THEN Respond(IF src = "existing" THEN 404 ELSE 502, FALSE)
             ELSE IF ~distinct
             THEN Respond(502, FALSE)
             ELSE routePc' = "frames" /\ UNCHANGED <<httpStatus, bodyHasUrls>>
    /\ UNCHANGED <<clips3, worldStates, actionsStored>>
    /\ UNCHANGED <<schedVars, genVars, createVars, pollVars, frameVars, uiVars, authVars, pickVars, loadVars, tokenVars>>

\* route.ts 209-220: the frames are made data URLs and the three calls are started
RouteClipsStart ==
    /\ routePc = "frames"
    /\ \E ok \in BOOLEAN :
          IF ok
          THEN /\ routePc' = "clips"
               /\ clips3' = [i \in Clips |-> "pending"]
               /\ UNCHANGED <<httpStatus, bodyHasUrls>>
          ELSE Respond(502, FALSE) /\ clips3' = clips3
    /\ UNCHANGED <<storyboard, worldStates, actionsStored>>
    /\ UNCHANGED <<schedVars, genVars, createVars, pollVars, frameVars, uiVars, authVars, pickVars, loadVars, tokenVars>>

\* route.ts 216-230, 241-254: call i settles; Promise.all rejects on the first call
\* that throws and fulfils when all three have resolved
RouteClipSettles(i) ==
    /\ clips3[i] = "pending"
    /\ \E r \in ClipResults :
          LET cs == [clips3 EXCEPT ![i] = r]
          IN  /\ clips3' = cs
              /\ IF routePc # "clips"
                 THEN UNCHANGED <<routePc, httpStatus, bodyHasUrls>>
                 ELSE IF r = "threw"
                 THEN Respond(502, FALSE)
                 ELSE IF \E j \in Clips : cs[j] = "pending"
                 THEN UNCHANGED <<routePc, httpStatus, bodyHasUrls>>
                 ELSE IF ~AllHaveVideoUrl(cs)
                 THEN Respond(502, FALSE)
                 ELSE routePc' = "persist" /\ UNCHANGED <<httpStatus, bodyHasUrls>>
    /\ UNCHANGED <<storyboard, worldStates, actionsStored>>
    /\ UNCHANGED <<schedVars, genVars, createVars, pollVars, frameVars, uiVars, authVars, pickVars, loadVars, tokenVars>>

\* route.ts 232-236: persistVideoUrls, still inside the try block
RoutePersisted ==
    /\ routePc = "persist"
    /\ \E ok \in BOOLEAN :
          IF ok
          THEN routePc' = "state" /\ UNCHANGED <<httpStatus, bodyHasUrls>>
          ELSE Respond(502, FALSE)
    /\ UNCHANGED <<storyboard, clips3, worldStates, actionsStored>>
    /\ UNCHANGED <<schedVars, genVars, createVars, pollVars, frameVars, uiVars, authVars, pickVars, loadVars, tokenVars>>

\* route.ts 264-272, worldRepo.ts 93-106: createWorldState inserts the row or throws
RouteStateCreated ==
    /\ routePc = "state"
    /\ \E ok \in BOOLEAN :
          IF ok
          THEN /\ worldStates' = worldStates + 1
               /\ routePc' = "actions"
               /\ UNCHANGED <<httpStatus, bodyHasUrls>>
          ELSE Respond(500, FALSE) /\ worldStates' = worldStates
    /\ UNCHANGED <<storyboard, clips3, actionsStored>>
    /\ UNCHANGED <<schedVars, genVars, createVars, pollVars, frameVars, uiVars, authVars, pickVars, loadVars, tokenVars>>

\* route.ts 274-280: suggestNextActionsWithGemini returns the actions, or null and the
\* fallback suggests them, or one of the two throws
RouteActionsSuggested ==
    /\ routePc = "actions"
    /\ \E r \in {"gemini", "fallback", "threw"} :
          IF r = "threw"
          THEN Respond(500, FALSE)
          ELSE routePc' = "store_" \o r /\ UNCHANGED <<httpStatus, bodyHasUrls>>
    /\ UNCHANGED <<storyboard, clips3, worldStates, actionsStored>>
    /\ UNCHANGED <<schedVars, genVars, createVars, pollVars, frameVars, uiVars, authVars, pickVars, loadVars, tokenVars>>

\* route.ts 288-294: the actions are stored and the response is sent
RouteActionsStored ==
    /\ routePc \in {"store_gemini", "store_fallback"}
    /\ \E ok \in BOOLEAN :
          IF ok
          THEN actionsStored' = TRUE /\ Respond(200, TRUE)
          ELSE actionsStored' = actionsStored /\ Respond(500, FALSE)
    /\ UNCHANGED <<storyboard, clips3, worldStates>>
    /\ UNCHANGED <<schedVars, genVars, createVars, pollVars, frameVars, uiVars, authVars, pickVars, loadVars, tokenVars>>

RouteNext ==
    \/ RouteStoryboard
    \/ RouteClipsStart
    \/ \E i \in Clips : RouteClipSettles(i)
    \/ RoutePersisted
    \/ RouteStateCreated
    \/ RouteActionsSuggested
    \/ RouteActionsStored

InitRoute == RouteInit /\ SchedIdle /\ GenIdle /\ CreateIdle /\ PollIdle /\ FrameIdle /\ UiIdle /\ AuthIdle /\ PickIdle /\ LoadIdle /\ TokenIdle

SpecRoute == InitRoute /\ [][RouteNext]_vars

(***************************************************************************)
(* The requests of the canvas and the loading flag: requestStoryboard and  *)
(* generateVideo (worldCanvas.tsx 459-533) report through props.onLoading, *)
(* which is the client's setLoading; the client disables its action inputs *)
(* while the flag is true and answers vyber:storyboardReady by dispatching *)
(* vyber:generateVideo (worldClient.tsx 89-105).  dispatchEvent runs the   *)
(* listeners before it returns.                                            *)
(***************************************************************************)
\* onLoadingRef.current(true) and the fetch of a request of kind k
Send(reqs, k) == Append(reqs, [kind |-> k, st |-> "outstanding"])

\* the request at position n is answered
Answer(reqs, n, ok) == [reqs EXCEPT ![n].st = IF ok THEN "ok" ELSE "failed"]

\* worldClient.tsx 89-100 and worldCanvas.tsx 242-251, 494-497: the listener of
\* vyber:storyboardReady dispatches vyber:generateVideo, whose listener calls
\* generateVideo, which runs up to its fetch
OnStoryboardReady(reqs) == Send(reqs, "video")

LoadInit ==
    /\ requests = <<>>
    /\ reported = FALSE

\* an action button or the custom form, enabled while loading is false, dispatches
\* vyber:action: requestStoryboard runs up to its fetch (459-466)
requestStoryboard ==
    /\ ~reported
    /\ Len(requests) < MaxRequests
    /\ requests' = Send(requests, "storyboard")
    /\ reported' = TRUE
    /\ UNCHANGED <<schedVars, genVars, createVars, pollVars, frameVars, uiVars, authVars, pickVars, routeVars, tokenVars>>

\* 467-491: the storyboard request is answered; on success vyber:storyboardReady is
\* dispatched, and the finally block reports false after the listeners have run
StoryboardAnswered(n) ==
    /\ n \in DOMAIN requests
    /\ requests[n] = [kind |-> "storyboard", st |-> "outstanding"]
    /\ \E ok \in BOOLEAN :
          /\ ok => Len(requests) < MaxRequests
          /\ requests' = IF ok THEN OnStoryboardReady(Answer(requests, n, TRUE))
                         ELSE Answer(requests, n, FALSE)
    /\ reported' = FALSE
    /\ UNCHANGED <<schedVars, genVars, createVars, pollVars, frameVars, uiVars, authVars, pickVars, routeVars, tokenVars>>

\* 497-532: the step request is answered and the finally block reports false
VideoAnswered(n) ==
    /\ n \in DOMAIN requests
    /\ requests[n] = [kind |-> "video", st |-> "outstanding"]
    /\ \E ok \in BOOLEAN : requests' = Answer(requests, n, ok)
    /\ reported' = FALSE
    /\ UNCHANGED <<schedVars, genVars, createVars, pollVars, frameVars, uiVars, authVars, pickVars, routeVars, tokenVars>>

LoadNext ==
    \/ requestStoryboard
    \/ \E n \in 1..MaxRequests : StoryboardAnswered(n)
    \/ \E n \in 1..MaxRequests : VideoAnswered(n)

InitLoad == LoadInit /\ SchedIdle /\ GenIdle /\ CreateIdle /\ PollIdle /\ FrameIdle /\ UiIdle /\ AuthIdle /\ PickIdle /\ RouteIdle /\ TokenIdle

SpecLoad == InitLoad /\ [][LoadNext]_vars

(***************************************************************************)
(* The tokens of createJwtToken (lib/external/kling.ts 64-83).  The        *)
(* payload is { iss, iat, nbf, exp }; iss is the access key and plays no   *)
(* part here.  Numbers are [nan, num] as above: JSON.stringify writes a    *)
(* NaN as null.                                                            *)
(***************************************************************************)
\* the texts KLING_TOKEN_TTL_SECONDS can hold: unset, not a number, and numbers
\* around the floor
TtlValues ==
    {[set |-> FALSE, nan |-> FALSE, num |-> 0], [set |-> TRUE, nan |-> TRUE, num |-> 0]}
        \cup {[set |-> TRUE, nan |-> FALSE, num |-> n] :
                 n \in {-1, 0, MinTtlSeconds - 1, MinTtlSeconds, MinTtlSeconds + 1}}

\* line 66: Number(process.env.KLING_TOKEN_TTL_SECONDS ?? "1800")
ttlSeconds(e) ==
    IF e.set THEN [nan |-> e.nan, num |-> e.num]
    ELSE [nan |-> FALSE, num |-> DefaultTtlSeconds]

\* line 72: Math.max(60, x), NaN when x is NaN
MathMax60(x) ==
    IF x.nan THEN x
    ELSE [nan |-> FALSE, num |-> IF x.num > MinTtlSeconds THEN x.num ELSE MinTtlSeconds]

\* now + x
PlusSeconds(t, x) == IF x.nan THEN x ELSE [nan |-> FALSE, num |-> t + x.num]

\* lines 68-73: the payload signed at second t
JwtPayload(t, e) ==
    [iat |-> t, nbf |-> t - NbfSkewSeconds, exp |-> PlusSeconds(t, MathMax60(ttlSeconds(e)))]

TokenInit ==
    /\ envTtl \in TtlValues
    /\ clock = 0
    /\ token = NoToken

\* a second passes
TokenClock ==
    /\ clock < MaxTokenSeconds
    /\ clock' = clock + 1
    /\ UNCHANGED <<envTtl, token>>
    /\ UNCHANGED <<schedVars, genVars, createVars, pollVars, frameVars, uiVars, authVars, pickVars, routeVars, loadVars>>

\* resolveAuthHeader (85-92) calls createJwtToken
SignToken ==
    /\ token' = JwtPayload(clock, envTtl)
    /\ UNCHANGED <<envTtl, clock>>
    /\ UNCHANGED <<schedVars, genVars, createVars, pollVars, frameVars, uiVars, authVars, pickVars, routeVars, loadVars>>

TokenNext == TokenClock \/ SignToken

InitToken == TokenInit /\ SchedIdle /\ GenIdle /\ CreateIdle /\ PollIdle /\ FrameIdle /\ UiIdle /\ AuthIdle /\ PickIdle /\ RouteIdle /\ LoadIdle

SpecToken == InitToken /\ [][TokenNext]_vars

(***************************************************************************)
(* Claims about the create request, checked under SpecCreate.              *)
(***************************************************************************)
\* the create requests numbered from..to all ended with a retryable HTTP status
RetryableFailures(from, to) ==
    \A k \in from..to :
        k \in DOMAIN responses /\ responses[k].kind = "http"
            /\ ~Ok(responses[k]) /\ isRetryableStatus(responses[k].status)

\* the attempt budget is 3
Budget3 == maxAttempts = [nan |-> FALSE, num |-> DefaultCreateAttempts]

LastNotRetryable ==
    /\ responses # <<>>
    /\ responses[Len(responses)].kind = "http"
    /\ ~Ok(responses[Len(responses)])
    /\ responses[Len(responses)].status \notin {408, 425, 429}
    /\ responses[Len(responses)].status < 500

\* C11: once a create request of createKlingTask is answered with a non-retryable
\* HTTP status the call has failed: it is not sleeping and sends no further request,
\* whatever the remaining budget.
C11_NonRetryableFailsAtOnce ==
    (backend = "kling" /\ LastNotRetryable) =>
        /\ createPc = "threw"
        /\ sent = Len(responses)

\* C11 witness: the first of four allowed requests was answered 400 and the call
\* failed after that one request.
C11_Witness ==
    /\ backend = "kling"
    /\ maxAttempts = [nan |-> FALSE, num |-> 4]
    /\ responses = <<[kind |-> "http", status |-> 400, code |-> 0]>>
    /\ createPc = "threw" /\ sent = 1

(***************************************************************************)
(* Claims about the poll loop, checked under SpecPoll and SpecPollFair.    *)
(***************************************************************************)
LastPoll == pollLog[Len(pollLog)]

\* the last poll request failed in transit: fetch threw, or the status was not 2xx
LastPollTransient == pollLog # <<>> /\ (LastPoll.kind = "neterr" \/ ~Ok(LastPoll))

\* the last poll response was a task document with a failed status
LastPollFailed == pollLog # <<>> /\ LastPoll.json /\ LastPoll.task \in {"FAILED", "ERROR"}

\* no poll response carried a status that ends the loop of this backend
NoTerminalStatus ==
    \A k \in DOMAIN pollLog :
        pollLog[k].json =>
            /\ ~isStatusFailed(pollLog[k].task)
            /\ IF pollBackend = "kling" THEN ~KlingIsStatusFinished(pollLog[k].task)
               ELSE ~SeedanceIsStatusFinished(pollLog[k].task)

\* C12 as stated, for both task clients: after a poll request that failed with a
\* network error or a non-2xx status the loop has not failed; it ends only by the
\* overall timeout.
C12_TransientPollFailureRetried ==
    LastPollTransient =>
        /\ pollPc # "threw"
        /\ pollPc = "returned" => elapsed > PollTimeout(pollBackend)

\* C13: once a poll response reports the status FAILED or ERROR the loop has returned
\* failure; it issues no further request, and none of its requests is anything but a
\* GET of the task.
C13_FailedStatusEndsPolling ==
    LastPollFailed =>
        /\ pollPc = "returned" /\ pollResult = "null"
        /\ Len(pollReqs) = Len(pollLog)
        /\ \A k \in DOMAIN pollReqs : pollReqs[k] = [method |-> "GET", url |-> "task"]

\* C13 witness: the task was running at the first poll and ERROR at the second, before
\* the timeout.
C13_Witness ==
    /\ Len(pollLog) = 2
    /\ pollLog[1].task = "RUNNING" /\ pollLog[2].task = "ERROR"
    /\ elapsed <= PollTimeout(pollBackend)
    /\ pollPc = "returned" /\ pollResult = "null"

\* C14: the poll loop ends; when no response carried a terminal status and the loop
\* returned, it returned failure after the overall timeout had elapsed; every request
\* it ever issued is a GET of the task (no cancellation).
C14_PollLoopTerminates ==
    /\ <>(pollPc \in {"returned", "threw"})
    /\ []((pollPc = "returned" /\ NoTerminalStatus) =>
             (pollResult = "null" /\ elapsed > PollTimeout(pollBackend)))
    /\ [](\A k \in DOMAIN pollReqs : pollReqs[k] = [method |-> "GET", url |-> "task"])

\* C14 witness: every poll until the timeout found the task running, and the loop
\* returned failure.
C14_Witness ==
    /\ pollLog # <<>>
    /\ \A k \in DOMAIN pollLog : pollLog[k].task = "RUNNING"
    /\ elapsed > PollTimeout(pollBackend)
    /\ pollPc = "returned" /\ pollResult = "null"

(***************************************************************************)
(* Claims about the swap routines, checked under Spec and SpecFair.         *)
(***************************************************************************)
\* an ordinary swap is in flight
NextInFlight == \E i \in DOMAIN inflight : inflight[i].kind = "next"

\* C17: every ordinary swap that starts eventually completes and clears
\* swapInProgress, also when the standby element never becomes ready to play or
\* reports an error.
C17_OrdinarySwapCompletes == NextInFlight ~> (~NextInFlight /\ ~swapping)

\* the frame under observation would start a splice or an ordinary swap
WouldSwap ==
    /\ ~swapping
    /\ \/ pending.len = ClipSetLen
       \/ el[activeSlot].ready /\ el[activeSlot].pos > 0 /\ shouldSwap(el[activeSlot])

\* C18: a frame that runs while a playback buffer is missing changes nothing: active
\* buffer, clip index, active clip set, per-buffer loaded clip index, swapInProgress,
\* lastSwapTimestamp and the pending clip set are as before, and no swap or splice
\* starts.
C18_MissingBufferNoOp ==
    [][(~ran /\ ran' /\ refs # Slots) => UNCHANGED schedVars]_vars

C18_Witness ==
    /\ ran /\ refs = {0}
    /\ WouldSwap /\ elapsed500 /\ pending.len = ClipSetLen
    /\ inflight = <<>>

\* the splice in flight returns in this step
SpliceCompletes == \E i \in DOMAIN inflight : inflight[i].kind = "new" /\ Returns(i)

\* the state a splice of the set n into the slot standby is to leave behind
SplicedIn(n, standby) ==
    /\ clipSet' = n
    /\ clipIndex' = 0
    /\ activeSlot' = standby
    /\ slotIdx'[standby] = 0 /\ el'[standby].src = Url(n, 0)
    /\ slotIdx'[Other(standby)] = 1 /\ el'[Other(standby)].src = Url(n, 1)
    /\ pending' = NoSet
    /\ ~swapping'

\* C19: when a splice of the 3-clip set N completes, the active set is N, the clip
\* index is 0, the active buffer is the former standby and holds N[0], the other
\* buffer holds N[1], no set is pending and swapInProgress is false.
C19_SpliceResult ==
    [][\A i \in DOMAIN inflight :
          (inflight[i].kind = "new" /\ Returns(i)) =>
              SplicedIn(inflight[i].clips, inflight[i].standby)]_vars

\* boot returns in this step
BootCompletes == bootPc # "done" /\ bootPc' = "done"

\* the browser refused the play() request of boot (line 62 catches and logs it)
BootPlayRefused == bootPc = "playA" /\ el' = el

\* C20: when boot completes with a 3-clip initial set, buffer A is active, holds
\* clip 0 of the set, is visible and playing; buffer B is idle, holds clip 1 and is
\* hidden; the clip index is 0.  (Stated for a boot whose play() request is granted:
\* a refused one leaves A paused whatever else happens.)
C20_BootResult ==
    [][(BootCompletes /\ ~BootPlayRefused) =>
          /\ activeSlot' = 0
          /\ clipIndex' = 0
          /\ slotIdx'[0] = 0 /\ el'[0].src = Url(initialVideoUrls, 0)
          /\ el'[0].opacity = "1" /\ ~el'[0].paused
          /\ slotIdx'[1] = 1 /\ el'[1].src = Url(initialVideoUrls, 1)
          /\ el'[1].opacity = "0" /\ el'[1].paused]_vars

(***************************************************************************)
(* Claims about what a frame starts, checked under Spec, SpecFair and      *)
(* SpecFrame.                                                              *)
(***************************************************************************)
\* the active clip has ended below the swap threshold, nothing is in progress or pending
EndedEarly ==
    /\ bootPc # "start"
    /\ el[activeSlot].ended /\ el[activeSlot].pos = 1
    /\ ~swapping
    /\ pending = NoSet

\* C21: when the active clip ends before the 4.8 s threshold, with no swap in
\* progress and no pending set, a later tick starts a swap: playback does not stay
\* on the ended clip.  (A clip set that arrives in the meantime takes the frame over
\* and ends the case.)
C21_EndedClipIsSwapped ==
    EndedEarly ~> (swapping \/ ~el[activeSlot].ended \/ pending # NoSet)

\* C22: each time a clip set becomes the active set (its splice makes it visible), a
\* now-showing notification for that set has been emitted to the history UI.
C22_NowShowingEmitted ==
    [][\A i \in DOMAIN inflight :
          (inflight[i].kind = "new" /\ Flips(i)) => inflight[i].clips \in stateCreated']_vars

(***************************************************************************)
(* Claims about the choice of the backend, checked under SpecGen.          *)
(***************************************************************************)
\* the backend the configured name stands for
ConfiguredBackend ==
    IF envModel.set /\ envModel.name = "kling" THEN "kling" ELSE "seedance"

\* C23: the three clip calls of one generateClips invocation all go to the client
\* the configured name selects: Kling for 'kling' in any letter case and with any
\* surrounding white space, Seedance for 'seedance', for an unset or empty name and
\* for any other name.
C23_OneBackendPerInvocation ==
    genPc \notin {"idle", "frames"} /\ call[0].st # "none" =>
        \A i \in Clips : client[i] = ConfiguredBackend

C23_Witness ==
    /\ envModel = [set |-> TRUE, name |-> "kling", upper |-> TRUE, padded |-> TRUE]
    /\ genPc = "resolved"
    /\ \A i \in Clips : client[i] = "kling" /\ poll[i].st = "url"

(***************************************************************************)
(* Claims about generateVideo, checked under SpecStep.                     *)
(***************************************************************************)
\* the generation request is answered in this step, and the answer is a failure
StepFails ==
    /\ stepPc = "fetch" /\ stepPc' # "fetch"
    /\ stepRes'.kind = "neterr" \/ stepRes'.status < 200 \/ stepRes'.status > 299

\* C24: a generation request that fails (network error or non-2xx response) leaves
\* the pending clip set, the active clip set and all other playback state as they
\* are, so the scheduler goes on with the current set.
C24_FailedGenerationChangesNothing == [][StepFails => UNCHANGED schedVars]_vars

C24_Witness ==
    /\ stepPc = "failed" /\ stepRes.status = 500 /\ stepError = 500 /\ ~loading
    /\ pending = NoSet
    /\ ran /\ Len(inflight) = 1 /\ inflight[1].kind = "next" /\ inflight[1].clips = clipSet

\* C25: a frame that runs while a 3-clip set is pending and no swap is in progress
\* starts the splice of that set, whatever the position of the active clip: below
\* the threshold, not ended, not even ready.
C25_JumpStartsAtOnce ==
    [][(~ran /\ ran' /\ refs = Slots /\ pending.len = ClipSetLen /\ ~swapping) =>
          /\ Starts("new")
          /\ inflight'[Len(inflight')].clips = pending
          /\ swapping']_vars

C25_Witness ==
    /\ ran /\ refs = Slots
    /\ Len(inflight) = 1 /\ inflight[1].kind = "new" /\ inflight[1].clips = pending
    /\ el[activeSlot].pos = 1 /\ ~el[activeSlot].ended /\ ~el[activeSlot].ready

\* C26: while no clip set is pending, a frame starts an ordinary swap only if the
\* active clip is at or past the 4.8 s threshold or has ended; below the threshold
\* and not ended, the frame leaves the playback state unchanged.
C26_NoSwapBelowThreshold ==
    [][(~ran /\ ran' /\ pending = NoSet) =>
          /\ Starts("next") => (el[activeSlot].pos >= 2 \/ el[activeSlot].ended)
          /\ (el[activeSlot].pos < 2 /\ ~el[activeSlot].ended) => UNCHANGED schedVars]_vars

C26_Witness ==
    /\ ran /\ refs = Slots /\ pending = NoSet
    /\ el[activeSlot].ready /\ el[activeSlot].pos = 1 /\ ~el[activeSlot].ended
    /\ elapsed500
    /\ inflight = <<>> /\ ~swapping

(***************************************************************************)
(* Claims about the retry delays of createKlingTask, checked under         *)
(* SpecCreate.                                                             *)
(***************************************************************************)
\* the kind of failure that caused the k-th retry
FailureClass(k) ==
    IF responses[k].kind = "neterr" THEN "transport"
    ELSE IF responses[k].status = 429 /\ responses[k].code = 1303 THEN "rate limit 1303"
    ELSE "status"

\* C27 as stated: within one createKlingTask call the delay before each retry is
\* strictly larger than the delay before the previous retry, whatever the failures.
C27_Original ==
    backend = "kling" =>
        \A k \in 2..Len(delays) : delays[k] > delays[k - 1]

\* C27 amended: the delay before a retry is strictly larger than the delay before
\* the previous retry whenever the two retries follow the same kind of failure
\* (600 ms per attempt after a transport failure, 700 ms per attempt after a
\* retryable status, 3000 ms plus 1000 ms per attempt after 429 with code 1303).
C27_DelayGrowsPerFailureKind ==
    backend = "kling" =>
        /\ \A k \in 2..Len(delays) :
              FailureClass(k) = FailureClass(k - 1) => delays[k] > delays[k - 1]
        /\ \A k \in 1..Len(delays) :
              delays[k] = IF FailureClass(k) = "transport" THEN 600 * k
                          ELSE IF FailureClass(k) = "status" THEN 700 * k
                          ELSE 3000 + 1000 * k

C27_Witness ==
    /\ backend = "kling"
    /\ delays = <<4000, 5000, 2100>>
    /\ createPc = "sleep"


(***************************************************************************)
(* Claims about the requests of one poll loop, checked under SpecPoll.     *)
(***************************************************************************)
\* the poll requests that were sent and have not ended
Outstanding == Len(pollReqs) - Len(pollLog)

\* C28: within one poll loop at most one poll request is outstanding at any time; a
\* request is sent only when every earlier request has ended (completed, failed or
\* aborted by the per-request timeout) and one inter-poll delay has passed since the
\* loop came back to its top.
C28_OnePollOutstanding ==
    [][/\ Outstanding' \in {0, 1}
       /\ pollReqs' # pollReqs =>
             /\ Outstanding = 0
             /\ Len(pollReqs') = Len(pollReqs) + 1
             /\ elapsed' = elapsed + 1]_vars

\* C28 witness: the first request of pollKlingTask ended as a rejected fetch (an abort
\* is one), the loop slept again and its second request is outstanding.
C28_Witness ==
    /\ pollBackend = "kling"
    /\ Len(pollReqs) = 2 /\ Len(pollLog) = 1
    /\ pollLog[1].kind = "neterr"
    /\ pollPc = "fetch"
    /\ elapsed >= 2


(***************************************************************************)
(* Claims about the Kling authorization header, checked under SpecAuth.    *)
(***************************************************************************)
\* C29: every poll request for a Kling task carries the authorization header computed
\* by the createKlingTask call that returned the task's id, whatever the time of the
\* request and whatever the headers of the other two tasks.
C29_PollCarriesCreateHeader ==
    \A i \in Clips : \A k \in DOMAIN pollAuth[i] :
        \A j \in Clips :
            (handle[j] # NoHandle /\ pollAuth[i][k].taskId = handle[j].taskId) =>
                pollAuth[i][k].authorization = authHeader[j]

\* C29 witness: the first two calls computed their headers in different seconds, and
\* the second task is polled twice, a second after the last header was computed, with
\* the header of its own call.
C29_Witness ==
    /\ authHeader[0] # authHeader[1]
    /\ Len(pollAuth[1]) = 2
    /\ pollAuth[1][2].authorization = authHeader[1]
    /\ now > authHeader[2].iat
    /\ pollAuth[0] # <<>>


(***************************************************************************)
(* Claims about the result URL, checked under SpecPick.                    *)
(***************************************************************************)
\* the known fields of the backend that the document holds with a non-empty string
PresentKnown ==
    {k \in DOMAIN KnownFields(pickBackend) :
        pollJson.f[KnownFields(pickBackend)[k]] \notin {"absent", "empty"}}

\* the deep scan has something to find: some string of the document looks like a video
ScanFinds == \E x \in DocFields : pollJson.f[x] = "video"

\* C30: when the loop has returned on a finished response, the URL it returned comes
\* from the first known field, in priority order, that the document holds; it comes
\* from the deep scan only when the document holds none of the known fields; and the
\* loop returned failure only when the deep scan had nothing to find either.
C30_KnownFieldsBeforeDeepScan ==
    pickPc = "returned" =>
        /\ PresentKnown # {} =>
               \A k \in PresentKnown :
                   (\A m \in PresentKnown : k <= m) =>
                       finalUrl.from = KnownFields(pickBackend)[k]
        /\ (PresentKnown = {} /\ ScanFinds) => finalUrl.from = "other"
        /\ finalUrl = NoUrl => ~ScanFinds


(***************************************************************************)
(* Claims about the independence of the three generations, checked under   *)
(* SpecGen.                                                                *)
(***************************************************************************)
\* C31: once the create call of a clip has returned a task, the poll loop of that task
\* has been started, whether or not the create calls of the other two clips have
\* returned.
C31_PollStartsAfterOwnCreate ==
    \A i \in Clips : call[i].st = "handle" => poll[i].st # "none"


(***************************************************************************)
(* Claims about the step endpoint, checked under SpecRoute.                *)
(***************************************************************************)
\* some clip generation call has ended without a URL
SomeClipMissing == \E i \in Clips : clips3[i] \in {"null", "threw"}

\* C32: the step endpoint inserts a world state and returns videoUrls only when all
\* three clip generation calls produced a URL; once it has responded after a call
\* returned no URL or threw, the status is 502, no world state was inserted and no
\* actions were stored.
C32_AllOrNothing ==
    /\ (worldStates > 0 \/ bodyHasUrls \/ actionsStored) =>
           \A i \in Clips : clips3[i] = "url"
    /\ worldStates <= 1
    /\ (routePc = "responded" /\ SomeClipMissing) =>
           (httpStatus = 502 /\ worldStates = 0 /\ ~actionsStored /\ ~bodyHasUrls)

\* C32 witness: two calls produced a URL, the third resolved with null, and the
\* endpoint has responded.
C32_Witness ==
    /\ clips3 = [i \in Clips |-> IF i = 2 THEN "null" ELSE "url"]
    /\ routePc = "responded" /\ httpStatus = 502
    /\ worldStates = 0


(***************************************************************************)
(* Claims about the loading flag, checked under SpecLoad.                  *)
(***************************************************************************)
\* C33: whenever a storyboard request or a step request of the canvas is outstanding,
\* the value last reported through onLoading is true.
C33_LoadingWhileOutstanding ==
    (\E n \in DOMAIN requests : requests[n].st = "outstanding") => reported


(***************************************************************************)
(* Claims about the props of the canvas, checked under SpecProps.          *)
(***************************************************************************)
\* C34: after boot the active clip set changes only in the step in which a splice
\* makes its new set active; no other step, a change of the props included, replaces
\* it.
C34_OnlySpliceChangesClipSet ==
    [][clipSet' # clipSet =>
          \E i \in DOMAIN inflight : inflight[i].kind = "new" /\ Flips(i)]_vars


(***************************************************************************)
(* Claims about the state between swaps, checked under Spec.               *)
(***************************************************************************)
\* boot has returned and no swap routine holds the lock
Quiescent == bootPc = "done" /\ ~swapping

\* C35: whenever boot has finished and no swap is in progress, exactly one buffer is
\* visible, and it is the active buffer.
C35_OneVisibleBuffer ==
    Quiescent =>
        /\ el[activeSlot].opacity = "1"
        /\ el[Other(activeSlot)].opacity # "1"

\* C36: whenever boot has finished and no swap is in progress, the active buffer
\* holds the clip clipIndex of the active clip set and the idle buffer holds the clip
\* after it (modulo 3) of the same set.
C36_BuffersHoldActiveSet ==
    Quiescent =>
        /\ el[activeSlot].src = Url(clipSet, clipIndex)
        /\ el[Other(activeSlot)].src = Url(clipSet, (clipIndex + 1) % ClipSetLen)


\* a set of a length other than 3 is waiting in pendingClipSetRef
RejectedPending == pending # NoSet /\ pending.len # ClipSetLen

\* C37: a delivered clip set whose length is not 3 does not stay pending: once it
\* has been rejected the pending reference no longer holds it, so that the frames
\* go back to starting ordinary swaps at the threshold.
C37_RejectedSetLeavesPending == RejectedPending ~> ~RejectedPending

\* the frames that follow a rejected set start no ordinary swap: while it is
\* pending, every swap that starts is the splice of another set
NoSwapWhileRejected ==
    [][(RejectedPending /\ RejectedPending' /\ Len(inflight') > Len(inflight)) =>
          inflight'[Len(inflight')].kind = "new"]_vars


\* swapToNewClipSet is past its first await and has not returned
SpliceRunning == \E i \in DOMAIN inflight : inflight[i].kind = "new"

\* C38: every splice that starts eventually clears swappingRef, whatever its loads
\* and its play() do (a load that fails or times out, a play() that is refused):
\* the scheduler is never left blocked by a splice.
C38_SpliceClearsFlag == SpliceRunning ~> ~swapping


\* createKlingTask has returned or thrown
KlingCreateEnded == backend = "kling" /\ createPc \in {"returned", "threw"}

\* the configured budget of create attempts, 1 where the text is below 1 or is not a
\* number
CreateBudget ==
    LET b == NumberOfEnv(envAttempts)
    IN  IF b.nan \/ b.num < 1 THEN 1 ELSE b.num

\* C39: whatever KLING_CREATE_ATTEMPTS holds (unset, zero, negative, not a number),
\* one call of createKlingTask sends at least one create request and at most
\* max(1, budget) of them.
C39_RequestsWithinBudget == KlingCreateEnded => (sent >= 1 /\ sent <= CreateBudget)

\* the same for the budgets that are numbers
NumericBudgetRequests ==
    (KlingCreateEnded /\ ~NumberOfEnv(envAttempts).nan) =>
        (sent >= 1 /\ sent <= CreateBudget)


(***************************************************************************)
(* Claims about the tokens, checked under SpecToken.                       *)
(***************************************************************************)
\* C40: every token createJwtToken signs has nbf = iat - 5 and exp >= iat + 60,
\* whatever KLING_TOKEN_TTL_SECONDS holds (a number below 60, a text that is not a
\* number): a token is valid when it is issued, nbf < iat < exp.
C40_TokenValidWhenIssued ==
    token # NoToken =>
        /\ token.nbf = token.iat - 5
        /\ ~token.exp.nan /\ token.exp.num >= token.iat + 60
        /\ token.nbf < token.iat /\ token.iat < token.exp.num

\* the same for the values of KLING_TOKEN_TTL_SECONDS that are numbers
NumericTtlTokenValid ==
    (token # NoToken /\ ~ttlSeconds(envTtl).nan) =>
        /\ token.nbf = token.iat - 5
        /\ ~token.exp.nan /\ token.exp.num >= token.iat + 60

====
